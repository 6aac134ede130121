------------------------ MODULE SchedulerStateProofs ------------------------
(***************************************************************************)
(* Proofs about SchedulerState, for every set of processes, picks,         *)
(* refreshers and writers and every number of committed changes.           *)
(***************************************************************************)
EXTENDS SchedulerState, FiniteSetTheorems, TLAPS

Labels == {"idle", "begin", "waiting", "writing", "lifted", "reconcile",
           "snapshot", "generation", "bans", "invalids", "publish",
           "filter", "again", "unavailable"}

Writing(m) == {w \in Of(m, Writers) : pc[w] = "writing"}

\* A pick is retried only after its first attempt.
RetriedOnce == \A p \in Pickers : pc[p] = "again" => attempt[p] = 1

-----------------------------------------------------------------------------
(* The pending count                                                       *)

\* A writer that enters or leaves its window changes the count by one.
LEMMA WindowCount ==
  ASSUME NEW S, NEW w \in S, IsFiniteSet(S)
  PROVE  /\ IsFiniteSet(S \ {w})
         /\ Cardinality(S) \in Nat /\ Cardinality(S \ {w}) \in Nat
         /\ Cardinality(S) = Cardinality(S \ {w}) + 1
         /\ Cardinality(S) > 0
  <1>1. IsFiniteSet(S \ {w}) /\ Cardinality(S \ {w}) = Cardinality(S) - 1
    BY FS_RemoveElement
  <1>2. Cardinality(S) \in Nat /\ Cardinality(S \ {w}) \in Nat
    BY <1>1, FS_CardinalityType
  <1>3. QED
    BY <1>1, <1>2

\* The writers inside their window are finitely many, and no more than all.
LEMMA WritingFinite ==
  ASSUME NEW S \in SUBSET Writers
  PROVE  IsFiniteSet(S) /\ Cardinality(S) \in 0 .. Cardinality(Writers)
  BY ConstantsAssumption, FS_Subset, FS_CardinalityType

\* Every step keeps the count exact and the cache unknown while it is positive.
LEMMA PendingStep ==
  TypeOK /\ PendingFailsClosed /\ [Next]_vars => PendingFailsClosed'
  <1> SUFFICES ASSUME TypeOK, PendingFailsClosed, [Next]_vars
               PROVE  PendingFailsClosed'
    OBVIOUS
  <1> USE ConstantsAssumption
  <1> DEFINE OK(m) == pending[m] = Cardinality(Writing(m)) /\ (pending[m] > 0 => ~Known(m))
  <1>1. \A m \in Processes : OK(m)
    BY DEF PendingFailsClosed, Writing
  <1>2. SUFFICES \A m \in Processes : OK(m)'
    BY <1>2 DEF PendingFailsClosed, Writing
  <1>3. \A m \in Processes : Writing(m) \in SUBSET Writers /\ Writing(m)' \in SUBSET Writers
    BY DEF Writing, Of
  \* No writer enters or leaves its window, and no cache is published.
  <1>4. ASSUME UNCHANGED pending,
               \A w \in Writers : pc'[w] = "writing" <=> pc[w] = "writing",
               \A m \in Processes : Known(m)' => Known(m) \/ pending[m] = 0
        PROVE  \A m \in Processes : OK(m)'
    <2> TAKE m \in Processes
    <2>1. Writing(m)' = Writing(m)
      BY <1>4 DEF Writing, Of
    <2>2. pending[m] \in Nat
      BY DEF TypeOK
    <2>3. QED
      BY <1>1, <1>4, <2>1, <2>2
  <1>5. ASSUME NEW w \in Writers, BeginWrite(w)
        PROVE  \A m \in Processes : OK(m)'
    <2> DEFINE k == ProcessOf[w]
    <2>1. k \in Processes /\ w \in Actors
      BY DEF Actors
    <2>2. /\ pending' = [pending EXCEPT ![k] = @ + 1] /\ cache' = [cache EXCEPT ![k] = Unknown]
          /\ pc' = [pc EXCEPT ![w] = "writing"] /\ pc[w] = "idle"
      BY <1>5 DEF BeginWrite, Forget, Goto
    <2>3. ASSUME NEW m \in Processes, m # k
          PROVE  OK(m)'
      <3>1. Writing(m)' = Writing(m)
        BY <2>1, <2>2, <2>3 DEF Writing, Of, TypeOK
      <3>2. QED
        BY <1>1, <2>1, <2>2, <2>3, <3>1 DEF TypeOK, Known
    <2>4. OK(k)'
      <3>1. Writing(k)' = Writing(k) \cup {w} /\ w \notin Writing(k)
        BY <2>1, <2>2 DEF Writing, Of, TypeOK, Actors
      <3>2. IsFiniteSet(Writing(k)')
        BY <1>3, <2>1, WritingFinite
      <3>3. w \in Writing(k)' /\ Writing(k)' \ {w} = Writing(k)
        BY <3>1
      <3>4. Cardinality(Writing(k)') = Cardinality(Writing(k)) + 1
        BY <3>2, <3>3, WindowCount
      <3>5. pending'[k] = pending[k] + 1 /\ cache'[k] = Unknown
        BY <2>1, <2>2 DEF TypeOK
      <3>6. QED
        BY <1>1, <2>1, <3>4, <3>5 DEF Known
    <2>5. QED
      BY <2>3, <2>4
  <1>6. ASSUME NEW w \in Writers, FinishWrite(w)
        PROVE  \A m \in Processes : OK(m)'
    <2> DEFINE k == ProcessOf[w]
    <2>1. k \in Processes /\ w \in Actors
      BY DEF Actors
    <2>2. /\ pending' = [pending EXCEPT ![k] = IF @ > 0 THEN @ - 1 ELSE @]
          /\ cache' = [cache EXCEPT ![k] = Unknown]
          /\ pc' = [pc EXCEPT ![w] = "idle"] /\ pc[w] = "writing"
      BY <1>6 DEF FinishWrite, Forget, Goto
    <2>3. ASSUME NEW m \in Processes, m # k
          PROVE  OK(m)'
      <3>1. Writing(m)' = Writing(m)
        BY <2>1, <2>2, <2>3 DEF Writing, Of, TypeOK
      <3>2. QED
        BY <1>1, <2>1, <2>2, <2>3, <3>1 DEF TypeOK, Known
    <2>4. OK(k)'
      <3>1. Writing(k)' = Writing(k) \ {w} /\ w \in Writing(k)
        BY <2>1, <2>2 DEF Writing, Of, TypeOK, Actors
      <3>2. IsFiniteSet(Writing(k))
        BY <1>3, <2>1, WritingFinite
      <3>3. /\ Cardinality(Writing(k)) = Cardinality(Writing(k)') + 1
            /\ Cardinality(Writing(k)') \in Nat /\ Cardinality(Writing(k)) > 0
        BY <3>1, <3>2, WindowCount
      <3>4. pending[k] = Cardinality(Writing(k))
        BY <1>1, <2>1
      <3>5. pending'[k] = pending[k] - 1 /\ cache'[k] = Unknown
        BY <2>1, <2>2, <3>3, <3>4 DEF TypeOK
      <3>6. QED
        BY <3>3, <3>4, <3>5 DEF Known
    <2>5. QED
      BY <2>3, <2>4
  <1>7. ASSUME NEW m \in Processes, Restart(m)
        PROVE  \A k \in Processes : OK(k)'
    <2>1. /\ pending' = [pending EXCEPT ![m] = 0] /\ cache' = [cache EXCEPT ![m] = Unknown]
          /\ pc' = [x \in Actors |-> IF ProcessOf[x] = m THEN Start(x) ELSE pc[x]]
      BY <1>7 DEF Restart
    <2>2. ASSUME NEW k \in Processes, k # m
          PROVE  OK(k)'
      <3>1. Writing(k)' = Writing(k)
        BY <2>1, <2>2 DEF Writing, Of, Actors
      <3>2. QED
        BY <1>1, <2>1, <2>2, <3>1 DEF TypeOK, Known
    <2>3. OK(m)'
      <3>1. Writing(m)' = {}
        BY <2>1 DEF Writing, Of, Actors, Start
      <3>2. pending'[m] = 0
        BY <2>1 DEF TypeOK
      <3>3. QED
        BY <3>1, <3>2, FS_EmptySet
    <2>4. QED
      BY <2>2, <2>3
  <1> DEFINE Calm == /\ UNCHANGED pending
                     /\ \A w \in Writers : pc'[w] = "writing" <=> pc[w] = "writing"
                     /\ \A m \in Processes : Known(m)' => Known(m) \/ pending[m] = 0
  <1>8. ASSUME NEW w \in Writers,
               CommitWrite(w) \/ CommitLift(w) \/ AnnounceLift(w) \/ LiftUnannounced(w)
        PROVE  Calm
    BY <1>8 DEF CommitWrite, CommitLift, AnnounceLift, LiftUnannounced, process, Goto,
                Forget, Known, TypeOK, Actors
  \* The steps of a reader leave the writers alone; what they publish is guarded.
  <1>9. ASSUME NEW x \in Readers, NEW label, pc' = [pc EXCEPT ![x] = label],
               UNCHANGED pending,
               cache' = cache \/ cache' = [cache EXCEPT ![ProcessOf[x]] = Unknown]
                 \/ (Publishable(x) /\ Publish(x))
        PROVE  Calm
    <2>1. \A w \in Writers : pc'[w] = pc[w]
      BY <1>9 DEF TypeOK, Actors
    <2>2. ProcessOf[x] \in Processes
      BY DEF Actors
    <2>3. \A m \in Processes : Known(m)' => Known(m) \/ pending[m] = 0
      BY <1>9, <2>2 DEF Known, TypeOK, Publishable, Publish
    <2>4. QED
      BY <1>9, <2>1, <2>3
  <1>10. ASSUME NEW r \in Refreshers, Refresh(r) \/ (r \in Workers /\ WorkerWakes(r))
         PROVE  Calm
    <2>1. r \in Readers
      BY DEF Readers
    <2>2. \E label : pc' = [pc EXCEPT ![r] = label]
      BY <1>10 DEF Refresh, BeginRefresh, ReadBans, ReadInvalids, ApplyRefresh, RefreshFails,
                   WorkerWakes, Goto
    <2>3. /\ UNCHANGED pending
          /\ cache' = cache \/ (Publishable(r) /\ Publish(r))
      BY <1>10 DEF Refresh, BeginRefresh, ReadBans, ReadInvalids, ApplyRefresh, RefreshFails,
                   WorkerWakes, process
    <2>4. QED
      BY <1>9, <2>1, <2>2, <2>3
  <1>11. ASSUME NEW p \in Pickers, Pick(p)
         PROVE  Calm
    <2>1. p \in Readers
      BY DEF Readers
    <2>2. \E label : pc' = [pc EXCEPT ![p] = label]
      BY <1>11 DEF Pick, ReadRevision, Reconcile, TakeSnapshot, NoSnapshot, ReadGeneration,
                   ReadBans, ReadInvalids, PublishOwn, UseCurrent, StateChanged, EndPick, Goto
    <2>3. /\ UNCHANGED pending
          /\ \/ cache' = cache \/ cache' = [cache EXCEPT ![ProcessOf[p]] = Unknown]
             \/ Publishable(p) /\ Publish(p)
      BY <1>11 DEF Pick, ReadRevision, Reconcile, TakeSnapshot, NoSnapshot, ReadGeneration,
                   ReadBans, ReadInvalids, PublishOwn, UseCurrent, StateChanged, EndPick,
                   Forget, process
    <2>4. QED
      BY <1>9, <2>1, <2>2, <2>3
  <1>12. ASSUME NEW m \in Processes, OpenStore(m) \/ Age(m) \/ Reconfigure(m)
         PROVE  Calm
    <2>1. UNCHANGED pending /\ \A w \in Writers : pc'[w] = "writing" <=> pc[w] = "writing"
      BY <1>12 DEF OpenStore, Age, Reconfigure, Of, Actors, Readers, Refreshers
    <2>2. \A k \in Processes : Known(k)' => Known(k)
      BY <1>12 DEF OpenStore, Age, Reconfigure, Forget, Known, Usable, TypeOK
    <2>3. QED
      BY <2>1, <2>2
  <1>13. CASE UNCHANGED vars
    BY <1>4, <1>13 DEF vars, Known
  <1>14. Calm => \A m \in Processes : OK(m)'
    BY <1>4
  <1> HIDE DEF Calm, OK
  <1>15. CASE \E w \in Writers : Write(w)
    BY <1>5, <1>6, <1>8, <1>14, <1>15 DEF Write
  <1>16. CASE \/ \E r \in Refreshers : Refresh(r)
              \/ \E r \in Workers : WorkerWakes(r)
    BY <1>10, <1>14, <1>16 DEF Refreshers
  <1>17. CASE \E p \in Pickers : Pick(p)
    BY <1>11, <1>14, <1>17
  <1>18. CASE \E m \in Processes : OpenStore(m) \/ Age(m) \/ Reconfigure(m) \/ Restart(m)
    BY <1>7, <1>12, <1>14, <1>18
  <1>19. QED
    BY <1>13, <1>15, <1>16, <1>17, <1>18 DEF Next

-----------------------------------------------------------------------------
(* Types                                                                   *)

Snapshots == [asOf : 0 .. MaxRevision, age : {"fresh", "stale", "expired"}]

\* The empty caches of idle processes have the right types and no write pending.
LEMMA InitTypes == Init => TypeOK /\ PendingFailsClosed /\ RetriedOnce
  <1> SUFFICES ASSUME Init
               PROVE  TypeOK /\ PendingFailsClosed /\ RetriedOnce
    OBVIOUS
  <1> USE ConstantsAssumption DEF Init
  <1>1. Cardinality(Writers) \in Nat
    BY FS_CardinalityType
  <1>2. TypeOK
    BY <1>1 DEF TypeOK, Start
  <1>3. \A m \in Processes : {w \in Of(m, Writers) : pc[w] = "writing"} = {}
    BY DEF Of, Actors, Start
  <1>4. Cardinality({}) = 0
    BY FS_EmptySet
  <1>5. PendingFailsClosed
    <2>1. \A m \in Processes : pending[m] = 0
      OBVIOUS
    <2>2. \A m \in Processes :
             pending[m] = Cardinality({w \in Of(m, Writers) : pc[w] = "writing"})
      <3> TAKE m \in Processes
      <3>1. {w \in Of(m, Writers) : pc[w] = "writing"} = {}
        BY <1>3
      <3> HIDE DEF Init
      <3>2. QED
        BY <1>4, <2>1, <3>1
    <2>3. QED
      BY <2>1, <2>2 DEF PendingFailsClosed
  <1>6. RetriedOnce
    BY DEF RetriedOnce, Start, Readers, Actors
  <1>7. QED
    BY <1>2, <1>5, <1>6

\* Every step keeps the types; the pending count is bounded because it is exact.
LEMMA TypeStep ==
  TypeOK /\ PendingFailsClosed /\ RetriedOnce /\ [Next]_vars => TypeOK' /\ RetriedOnce'
  <1> SUFFICES ASSUME TypeOK, PendingFailsClosed, RetriedOnce, [Next]_vars
               PROVE  TypeOK' /\ RetriedOnce'
    OBVIOUS
  <1> USE ConstantsAssumption
  <1>1. pending' \in [Processes -> 0 .. Cardinality(Writers)]
    <2>1. PendingFailsClosed'
      BY PendingStep
    <2>2. \A m \in Processes : pending'[m] \in 0 .. Cardinality(Writers)
      <3> TAKE m \in Processes
      <3>1. {w \in Of(m, Writers) : pc'[w] = "writing"} \in SUBSET Writers
        BY DEF Of
      <3>2. pending'[m] = Cardinality({w \in Of(m, Writers) : pc'[w] = "writing"})
        BY <2>1 DEF PendingFailsClosed
      <3>3. QED
        BY <3>1, <3>2, WritingFinite
    <2>3. pending' = [m \in Processes |-> pending'[m]]
      BY DEF TypeOK, Next, vars, process, Write, BeginWrite, CommitWrite, FinishWrite, CommitLift,
             AnnounceLift, LiftUnannounced, Refresh, BeginRefresh, ReadBans, ReadInvalids,
             ApplyRefresh, RefreshFails, WorkerWakes, Pick, ReadRevision, Reconcile, TakeSnapshot,
             NoSnapshot, ReadGeneration, PublishOwn, UseCurrent, StateChanged, EndPick,
             OpenStore, Age, Reconfigure, Restart
    <2>4. QED
      BY <2>2, <2>3
  <1>2. ASSUME NEW x \in Actors, NEW label \in Labels, pc' = [pc EXCEPT ![x] = label]
        PROVE  pc' \in [Actors -> Labels]
    BY <1>2 DEF TypeOK, Labels
  <1>3. \A m \in Processes : cache[m] # Unknown => cache[m] \in Snapshots
    BY DEF TypeOK, Snapshots
  <1>4. ASSUME NEW w \in Writers, Write(w)
        PROVE  TypeOK' /\ RetriedOnce'
    <2>1. w \in Actors /\ ProcessOf[w] \in Processes
      BY DEF Actors
    <2>2. \E label \in {"writing", "idle", "lifted"} : pc' \in {pc, [pc EXCEPT ![w] = label]}
      BY <1>4 DEF Write, BeginWrite, CommitWrite, FinishWrite, CommitLift, AnnounceLift,
                  LiftUnannounced, Goto
    <2>3. pc' \in [Actors -> Labels]
      BY <2>1, <2>2 DEF TypeOK, Labels
    <2>4. \A p \in Pickers : pc'[p] = pc[p]
      BY <2>1, <2>2 DEF TypeOK, Actors, Readers
    <2>5. /\ revision' \in 0 .. MaxRevision
          /\ observed' = observed /\ read' = read /\ revRead' = revRead /\ attempt' = attempt
          /\ cache' = cache \/ cache' = [cache EXCEPT ![ProcessOf[w]] = Unknown]
          /\ wake' \subseteq Processes /\ current' \subseteq Readers
      BY <1>4, <2>1 DEF Write, BeginWrite, CommitWrite, FinishWrite, CommitLift, AnnounceLift,
                  LiftUnannounced, process, pick, Forget, Bump, Request, TypeOK, Of
    <2>6. need' \in [Pickers -> 0 .. MaxRevision]
      <3>1. CASE CommitWrite(w)
        BY <3>1, <2>5 DEF CommitWrite, TypeOK
      <3>2. CASE ~CommitWrite(w)
        BY <1>4, <3>2 DEF Write, BeginWrite, FinishWrite, CommitLift, AnnounceLift,
                  LiftUnannounced, pick, TypeOK
      <3>3. QED
        BY <3>1, <3>2
    <2>7. QED
      BY <1>1, <2>3, <2>4, <2>5, <2>6 DEF TypeOK, RetriedOnce, Labels
  <1>5. ASSUME NEW r \in Refreshers, Refresh(r) \/ (r \in Workers /\ WorkerWakes(r))
        PROVE  TypeOK' /\ RetriedOnce'
    <2>1. r \in Readers /\ r \in Actors /\ r \notin Pickers /\ ProcessOf[r] \in Processes
      BY DEF Actors, Readers
    <2>2. \E label \in {"bans", "invalids", "publish", "begin", "idle", "waiting"} :
             pc' = [pc EXCEPT ![r] = label]
      BY <1>5 DEF Refresh, BeginRefresh, ReadBans, ReadInvalids, ApplyRefresh, RefreshFails,
                  WorkerWakes, Goto, Start, Resting
    <2>3. pc' \in [Actors -> Labels]
      BY <2>1, <2>2 DEF TypeOK, Labels
    <2>4. \A p \in Pickers : pc'[p] = pc[p]
      BY <2>1, <2>2 DEF TypeOK, Actors, Readers
    <2>5. /\ revision' = revision /\ observed' = observed
          /\ UNCHANGED << revRead, attempt, need >>
          /\ read' \in [Readers -> 0 .. MaxRevision]
          /\ wake' \subseteq Processes /\ current' \subseteq Readers
          /\ cache' = cache \/ cache' = [cache EXCEPT ![ProcessOf[r]] = Snapshot(read[r])]
      BY <1>5, <2>1 DEF Refresh, BeginRefresh, ReadBans, ReadInvalids, ApplyRefresh, RefreshFails,
                  WorkerWakes, process, pick, Publish, Bump, TypeOK, Of
    <2>6. cache' \in [Processes -> {Unknown} \cup Snapshots]
      <3>1. Snapshot(read[r]) \in Snapshots
        BY <2>1 DEF Snapshot, Snapshots, TypeOK
      <3>2. QED
        BY <2>1, <2>5, <3>1 DEF TypeOK, Snapshots
    <2>7. QED
      BY <1>1, <2>3, <2>4, <2>5, <2>6 DEF TypeOK, RetriedOnce, Labels, Snapshots
  <1>6. ASSUME NEW p \in Pickers, Pick(p)
        PROVE  TypeOK' /\ RetriedOnce'
    <2>1. p \in Readers /\ p \in Actors /\ ProcessOf[p] \in Processes
      BY DEF Actors, Readers
    <2>2. \E label \in Labels : pc' = [pc EXCEPT ![p] = label]
      BY <1>6 DEF Pick, ReadRevision, Reconcile, TakeSnapshot, NoSnapshot, ReadGeneration,
                  ReadBans, ReadInvalids, PublishOwn, UseCurrent, StateChanged, EndPick, Goto, Labels
    <2>3. pc' \in [Actors -> Labels]
      BY <2>1, <2>2 DEF TypeOK, Labels
    <2>4. /\ revision' = revision
          /\ wake' \subseteq Processes /\ current' \subseteq Readers
          /\ \/ cache' \in {cache, [cache EXCEPT ![ProcessOf[p]] = Unknown]}
             \/ cache' = [cache EXCEPT ![ProcessOf[p]] = Snapshot(read[p])]
      BY <1>6, <2>1 DEF Pick, ReadRevision, Reconcile, TakeSnapshot, NoSnapshot, ReadGeneration,
                  ReadBans, ReadInvalids, PublishOwn, UseCurrent, StateChanged, EndPick, process,
                  Forget, Publish, Bump, Request, Return, TypeOK, Of
    <2>5. cache' \in [Processes -> {Unknown} \cup Snapshots]
      <3>1. Snapshot(read[p]) \in Snapshots
        BY <2>1 DEF Snapshot, Snapshots, TypeOK
      <3>2. QED
        BY <2>1, <2>4, <3>1 DEF TypeOK, Snapshots
    <2>6. observed' \in [Processes -> 0 .. MaxRevision \cup {Closed}]
      BY <1>6, <2>1 DEF Pick, ReadRevision, Reconcile, TakeSnapshot, NoSnapshot, ReadGeneration,
                  ReadBans, ReadInvalids, PublishOwn, UseCurrent, StateChanged, EndPick, process,
                  TypeOK
    <2>7. read' \in [Readers -> 0 .. MaxRevision]
      <3>1. CASE TakeSnapshot(p) \/ UseCurrent(p)
        BY <1>3, <2>1, <3>1 DEF TakeSnapshot, UseCurrent, Usable, Fresh, Known, Snapshots, TypeOK
      <3>2. CASE ~(TakeSnapshot(p) \/ UseCurrent(p))
        BY <1>6, <2>1, <3>2 DEF Pick, ReadRevision, Reconcile, NoSnapshot, ReadGeneration,
                  ReadBans, ReadInvalids, PublishOwn, StateChanged, EndPick, Return, TypeOK
      <3>3. QED
        BY <3>1, <3>2
    <2>8. /\ revRead' \in [Pickers -> 0 .. MaxRevision]
          /\ need' \in [Pickers -> 0 .. MaxRevision]
      BY <1>6, <2>1 DEF Pick, ReadRevision, Reconcile, TakeSnapshot, NoSnapshot, ReadGeneration,
                  ReadBans, ReadInvalids, PublishOwn, UseCurrent, StateChanged, EndPick, pick,
                  Return, TypeOK
    <2>9. attempt' \in [Pickers -> 1 .. 2] /\ RetriedOnce'
      <3>1. CASE ReadRevision(p)
        <4>1. attempt' = [attempt EXCEPT ![p] = IF pc[p] = "again" THEN @ + 1 ELSE 1]
          BY <3>1 DEF ReadRevision
        <4>2. attempt[p] \in 1 .. 2 /\ (pc[p] = "again" => attempt[p] = 1)
          BY DEF TypeOK, RetriedOnce
        <4>3. \A q \in Pickers : q # p => pc'[q] = pc[q] /\ attempt'[q] = attempt[q]
          BY <2>1, <2>2, <4>1 DEF TypeOK, Actors, Readers
        <4>4. pc'[p] # "again"
          BY <2>1, <3>1 DEF ReadRevision, Goto, TypeOK
        <4>5. QED
          BY <4>1, <4>2, <4>3, <4>4 DEF TypeOK, RetriedOnce
      <3>2. CASE EndPick(p)
        BY <2>1, <3>2 DEF EndPick, Return, Goto, TypeOK, RetriedOnce, Actors, Readers
      <3>3. CASE StateChanged(p)
        BY <2>1, <3>3 DEF StateChanged, pick, Goto, TypeOK, RetriedOnce, Actors, Readers
      <3>4. CASE ~(ReadRevision(p) \/ EndPick(p) \/ StateChanged(p))
        <4>1. attempt' = attempt
          BY <1>6, <3>4 DEF Pick, Reconcile, TakeSnapshot, NoSnapshot, ReadGeneration,
                  ReadBans, ReadInvalids, PublishOwn, UseCurrent, pick
        <4>2. \E label \in Labels \ {"again"} : pc' = [pc EXCEPT ![p] = label]
          BY <1>6, <3>4 DEF Pick, Reconcile, TakeSnapshot, NoSnapshot, ReadGeneration,
                  ReadBans, ReadInvalids, PublishOwn, UseCurrent, Goto, Labels
        <4>3. QED
          BY <2>1, <4>1, <4>2 DEF TypeOK, RetriedOnce, Actors, Readers
      <3>5. QED
        BY <3>1, <3>2, <3>3, <3>4
    <2>10. QED
      BY <1>1, <2>3, <2>4, <2>5, <2>6, <2>7, <2>8, <2>9 DEF TypeOK, Labels, Snapshots
  <1>7. ASSUME NEW m \in Processes, OpenStore(m)
        PROVE  TypeOK' /\ RetriedOnce'
    BY <1>1, <1>7 DEF OpenStore, pick, TypeOK, RetriedOnce
  <1>8. ASSUME NEW m \in Processes, Age(m)
        PROVE  TypeOK' /\ RetriedOnce'
    <2>1. cache[m] \in Snapshots
      BY <1>3, <1>8 DEF Age, Usable, Known
    <2>2. cache' \in [Processes -> {Unknown} \cup Snapshots]
      BY <1>8, <2>1 DEF Age, TypeOK, Snapshots
    <2>3. QED
      BY <1>1, <1>8, <2>2 DEF Age, pick, TypeOK, RetriedOnce, Snapshots
  <1>9. ASSUME NEW m \in Processes, Reconfigure(m)
        PROVE  TypeOK' /\ RetriedOnce'
    <2>1. pc' \in [Actors -> Labels] /\ \A p \in Pickers : pc'[p] = pc[p]
      BY <1>9 DEF Reconfigure, TypeOK, Labels, Of, Actors, Readers, Refreshers
    <2>2. QED
      BY <1>1, <1>9, <2>1 DEF Reconfigure, Forget, Bump, pick, TypeOK, RetriedOnce, Labels, Of
  <1>10. ASSUME NEW m \in Processes, Restart(m)
         PROVE  TypeOK' /\ RetriedOnce'
    <2>1. pc' \in [Actors -> Labels]
      BY <1>10 DEF Restart, TypeOK, Labels, Start
    <2>2. RetriedOnce'
      BY <1>10 DEF Restart, Return, RetriedOnce, Start, Of, Actors, Readers
    <2>3. QED
      BY <1>1, <1>10, <2>1, <2>2 DEF Restart, Bump, Return, TypeOK, Labels, Of
  <1>11. CASE UNCHANGED vars
    BY <1>11 DEF vars, TypeOK, RetriedOnce
  <1>12. QED
    BY <1>4, <1>5, <1>6, <1>7, <1>8, <1>9, <1>10, <1>11 DEF Next, Refreshers

-----------------------------------------------------------------------------
(* Revisions                                                               *)

\* A reader whose query ran, and whose generation is still the current one.
Queried(x) == x \in current /\ pc[x] \in {"invalids", "publish"}

\* Nobody has seen a revision that is not committed.
Bounded ==
  /\ \A m \in Processes :
       /\ observed[m] # Closed => observed[m] <= revision
       /\ Known(m) => cache[m].asOf <= revision
  /\ \A x \in Readers : read[x] <= revision
  /\ \A p \in Pickers : need[p] <= revision /\ revRead[p] <= need[p]

\* A process whose store is not open has no snapshot and no reader under way.
ClosedIsEmpty ==
  \A m \in Processes : observed[m] = Closed => ~Known(m) /\ current \cap Of(m, Readers) = {}

\* What a reader may publish is as new as what its process observed and served.
ReadersAhead ==
  \A x \in Readers : Queried(x) =>
    /\ observed[ProcessOf[x]] # Closed => read[x] >= observed[ProcessOf[x]]
    /\ Known(ProcessOf[x]) => read[x] >= cache[ProcessOf[x]].asOf

\* A pick whose process has nothing to catch up with: it reconciled the revision
\* it read, or its process invalidated the cache since.
Owed(p) ==
  \/ pc[p] \in {"snapshot", "generation", "bans", "invalids", "publish"}
  \/ pc[p] = "reconcile" /\ need[p] > revRead[p]

\* Whatever such a pick may come to filter with reflects what it needs.
PicksCaughtUp ==
  \A p \in Pickers : Owed(p) =>
    /\ Known(ProcessOf[p]) => cache[ProcessOf[p]].asOf >= need[p]
    /\ \A x \in Readers :
         Queried(x) /\ ProcessOf[x] = ProcessOf[p] /\ pending[ProcessOf[p]] = 0
           => read[x] >= need[p]

\* The inductive invariant of the revisions.
Revisions ==
  /\ Bounded
  /\ ClosedIsEmpty
  /\ ReadersAhead
  /\ ObservedIsReflected
  /\ PicksCaughtUp
  /\ FiltersWithCurrentState

\* The revisions are numbers.
LEMMA Numbers ==
  ASSUME TypeOK
  PROVE  /\ revision \in Int
         /\ \A m \in Processes : observed[m] # Closed => observed[m] \in Int
         /\ \A m \in Processes : Known(m) => cache[m].asOf \in Int
         /\ \A x \in Readers : read[x] \in Int /\ read[x] >= 0
         /\ \A p \in Pickers : need[p] \in Int /\ revRead[p] \in Int
  <1> USE ConstantsAssumption DEF TypeOK
  <1>1. \A m \in Processes : observed[m] # Closed => observed[m] \in Int
    OBVIOUS
  <1>2. \A m \in Processes : Known(m) => cache[m].asOf \in Int
    BY DEF Known
  <1>3. QED
    BY <1>1, <1>2

\* Every step of a writer keeps the revisions in order.
LEMMA WriterStep ==
  ASSUME TypeOK, PendingFailsClosed, Revisions, NEW w \in Writers, Write(w)
  PROVE  Revisions'
  <1> USE ConstantsAssumption
  <1> DEFINE m == ProcessOf[w]
  <1>1. /\ m \in Processes /\ w \in Actors /\ Pickers \subseteq Readers
        /\ \A x \in Readers : x # w /\ x \in Actors /\ ProcessOf[x] \in Processes
    BY DEF Actors, Readers
  <1>2. \A x \in Readers : pc'[x] = pc[x]
    BY <1>1 DEF Write, BeginWrite, CommitWrite, FinishWrite, CommitLift, AnnounceLift,
               LiftUnannounced, Goto, TypeOK
  \* The cache of the process is forgotten, or nothing but the revision changed.
  <1>3. CASE BeginWrite(w) \/ FinishWrite(w) \/ AnnounceLift(w)
    <2>1. /\ cache' = [cache EXCEPT ![m] = Unknown] /\ current' = current \ Of(m, Readers)
          /\ UNCHANGED << revision, observed, read, revRead, attempt, need >>
          /\ \A k \in Processes : k # m => pending'[k] = pending[k]
      BY <1>1, <1>3 DEF BeginWrite, FinishWrite, AnnounceLift, Forget, Bump, pick, TypeOK
    <2>2. QED
      BY <1>1, <1>2, <2>1 DEF Revisions, Bounded, ClosedIsEmpty, ReadersAhead, ObservedIsReflected,
         PicksCaughtUp, FiltersWithCurrentState, Known, Queried, Owed, Of, TypeOK
  <1>4. CASE CommitWrite(w)
    <2> DEFINE Bound(p) == ProcessOf[p] = m /\ pc[p] \notin {"idle", "filter", "unavailable"}
    <2>1. /\ revision' = revision + 1
          /\ UNCHANGED << observed, cache, pending, current, read, revRead >>
          /\ \A p \in Pickers : need'[p] = IF Bound(p) THEN revision + 1 ELSE need[p]
      BY <1>1, <1>4 DEF CommitWrite, process
    <2>2. pending[m] > 0 /\ ~Known(m)
      <3>1. {v \in Of(m, Writers) : pc[v] = "writing"} \in SUBSET Writers
        BY DEF Of
      <3>2. w \in {v \in Of(m, Writers) : pc[v] = "writing"}
        BY <1>4 DEF CommitWrite, Of
      <3>3. pending[m] > 0
        BY <1>1, <3>1, <3>2, WritingFinite, WindowCount DEF PendingFailsClosed
      <3>4. QED
        BY <1>1, <3>3 DEF PendingFailsClosed
    <2>3. Bounded'
      BY <1>1, <2>1, Numbers DEF Revisions, Bounded, Known
    <2>4. ClosedIsEmpty' /\ ReadersAhead' /\ ObservedIsReflected'
      BY <1>1, <1>2, <2>1 DEF Revisions, ClosedIsEmpty, ReadersAhead, ObservedIsReflected, Known,
                             Queried
    <2>5. FiltersWithCurrentState'
      BY <1>1, <1>2, <2>1 DEF Revisions, FiltersWithCurrentState
    <2>6. PicksCaughtUp'
      BY <1>1, <1>2, <2>1, <2>2 DEF Revisions, PicksCaughtUp, Known, Queried, Owed
    <2>7. QED
      BY <2>3, <2>4, <2>5, <2>6 DEF Revisions
  <1>5. CASE CommitLift(w) \/ LiftUnannounced(w)
    <2>1. /\ revision' >= revision /\ revision' \in Int
          /\ UNCHANGED << observed, cache, pending, current, read, revRead, need >>
      BY <1>5, Numbers DEF CommitLift, LiftUnannounced, process, pick
    <2>2. Bounded'
      BY <1>1, <2>1, Numbers DEF Revisions, Bounded, Known
    <2>3. QED
      BY <1>1, <1>2, <2>1, <2>2 DEF Revisions, ClosedIsEmpty, ReadersAhead, ObservedIsReflected,
         PicksCaughtUp, FiltersWithCurrentState, Known, Queried, Owed
  <1>6. QED
    BY <1>3, <1>4, <1>5 DEF Write

\* Every step of a refresh keeps the revisions in order.
LEMMA RefreshStep ==
  ASSUME TypeOK, Revisions, NEW r \in Refreshers,
         Refresh(r) \/ (r \in Workers /\ WorkerWakes(r))
  PROVE  Revisions'
  <1> USE ConstantsAssumption
  <1> DEFINE m == ProcessOf[r]
  <1>1. /\ r \in Readers /\ r \notin Pickers /\ m \in Processes /\ Pickers \subseteq Readers
        /\ \A x \in Readers : x \in Actors /\ ProcessOf[x] \in Processes
    BY DEF Actors, Readers
  <1>2. \A x \in Readers : x # r => pc'[x] = pc[x]
    BY <1>1 DEF Refresh, BeginRefresh, ReadBans, ReadInvalids, ApplyRefresh, RefreshFails,
               WorkerWakes, Goto, TypeOK
  <1>3. /\ UNCHANGED << revision, observed, pending, revRead, need >>
        /\ \A p \in Pickers : pc'[p] = pc[p] /\ read'[p] = read[p]
    BY <1>1, <1>2 DEF Refresh, BeginRefresh, ReadBans, ReadInvalids, ApplyRefresh, RefreshFails,
               WorkerWakes, process, pick, TypeOK
  <1>4. FiltersWithCurrentState'
    BY <1>3 DEF Revisions, FiltersWithCurrentState
  <1>5. CASE BeginRefresh(r) \/ RefreshFails(r) \/ WorkerWakes(r)
    <2>1. /\ cache' = cache /\ current' \subseteq current \cup {r}
          /\ \/ read' = read \/ read' = [read EXCEPT ![r] = 0]
          /\ pc'[r] \notin {"invalids", "publish"}
          /\ r \in current' => observed[m] # Closed
      BY <1>1, <1>5 DEF BeginRefresh, RefreshFails, WorkerWakes, process, Goto, Start, Resting,
                        Open, Revisions, ClosedIsEmpty, Of, TypeOK
    <2>2. Bounded'
      BY <1>1, <1>3, <2>1, Numbers DEF Revisions, Bounded, Known, TypeOK
    <2>3. ClosedIsEmpty'
      BY <1>1, <1>3, <2>1 DEF Revisions, ClosedIsEmpty, Known, Of
    <2>4. ReadersAhead' /\ ObservedIsReflected' /\ PicksCaughtUp'
      BY <1>1, <1>2, <1>3, <2>1 DEF Revisions, ReadersAhead, ObservedIsReflected, PicksCaughtUp,
         Known, Queried, Owed, TypeOK
    <2>5. QED
      BY <1>4, <2>2, <2>3, <2>4 DEF Revisions
  \* A query sees every change there is.
  <1>6. CASE ReadBans(r)
    <2>1. /\ cache' = cache /\ current' = current /\ read' = [read EXCEPT ![r] = revision]
          /\ pc'[r] = "invalids"
      BY <1>1, <1>6 DEF ReadBans, process, Goto, TypeOK
    <2>2. Bounded'
      BY <1>1, <1>3, <2>1, Numbers DEF Revisions, Bounded, Known, TypeOK
    <2>3. ReadersAhead' /\ PicksCaughtUp'
      BY <1>1, <1>2, <1>3, <2>1, Numbers DEF Revisions, Bounded, ReadersAhead, PicksCaughtUp,
         Known, Queried, Owed, TypeOK
    <2>4. QED
      BY <1>1, <1>3, <1>4, <2>1, <2>2, <2>3 DEF Revisions, ClosedIsEmpty, ObservedIsReflected, Known
  <1>7. CASE ReadInvalids(r)
    <2>1. /\ cache' = cache /\ current' = current /\ read' = read
          /\ \A x \in Readers : Queried(x)' <=> Queried(x)
      BY <1>1, <1>2, <1>7 DEF ReadInvalids, process, Goto, Queried, TypeOK
    <2>2. QED
      BY <1>1, <1>3, <1>4, <2>1 DEF Revisions, Bounded, ClosedIsEmpty, ReadersAhead,
         ObservedIsReflected, PicksCaughtUp, Known, Owed
  <1>8. CASE ApplyRefresh(r)
    <2>1. /\ pc[r] = "publish" /\ read' = [read EXCEPT ![r] = 0]
          /\ pc'[r] \notin {"invalids", "publish"}
          /\ IF Publishable(r) THEN Publish(r) ELSE cache' = cache /\ current' = current \ {r}
      BY <1>1, <1>8 DEF ApplyRefresh, Goto, Resting, TypeOK
    <2>2. CASE ~Publishable(r)
      <3>1. Bounded'
        BY <1>1, <1>3, <2>1, <2>2, Numbers DEF Revisions, Bounded, Known, TypeOK
      <3>2. QED
        BY <1>1, <1>2, <1>3, <1>4, <2>1, <2>2, <3>1 DEF Revisions, ClosedIsEmpty, ReadersAhead,
           ObservedIsReflected, PicksCaughtUp, Known, Queried, Owed, Of, TypeOK
    <2>3. CASE Publishable(r)
      <3>1. /\ cache' = [cache EXCEPT ![m] = Snapshot(read[r])]
            /\ current' = current \ Of(m, Readers)
            /\ pending[m] = 0 /\ Queried(r) /\ observed[m] # Closed
        BY <1>1, <2>1, <2>3 DEF Publishable, Publish, Bump, Queried, Revisions, ClosedIsEmpty, Of
      <3>2. /\ cache'[m].asOf = read[r]
            /\ \A k \in Processes : k # m => cache'[k] = cache[k]
        BY <1>1, <3>1 DEF Snapshot, TypeOK
      <3>3. Bounded'
        BY <1>1, <1>3, <2>1, <3>2, Numbers DEF Revisions, Bounded, Known, TypeOK
      <3>4. ClosedIsEmpty'
        BY <1>1, <1>3, <3>1, <3>2 DEF Revisions, ClosedIsEmpty, Known, Of
      <3>5. \A x \in Readers : Queried(x)' =>
               Queried(x) /\ ProcessOf[x] # m /\ read'[x] = read[x]
        BY <1>1, <1>2, <2>1, <3>1 DEF Queried, Of, TypeOK
      <3>6. ReadersAhead'
        BY <1>1, <1>3, <3>2, <3>5 DEF Revisions, ReadersAhead, Known
      <3>7. ObservedIsReflected'
        BY <1>1, <1>3, <3>1, <3>2 DEF Revisions, ObservedIsReflected, ReadersAhead, Known
      <3>8. PicksCaughtUp'
        <4>1. \A p \in Pickers : Owed(p)' <=> Owed(p)
          BY <1>3 DEF Owed
        <4>2. QED
          BY <1>1, <1>3, <3>1, <3>2, <3>5, <4>1 DEF Revisions, PicksCaughtUp, Known
      <3>9. QED
        BY <1>4, <3>3, <3>4, <3>6, <3>7, <3>8 DEF Revisions
    <2>4. QED
      BY <2>2, <2>3
  <1>9. QED
    BY <1>5, <1>6, <1>7, <1>8 DEF Refresh

\* Every step of a pick keeps the revisions in order.
LEMMA PickStep ==
  ASSUME TypeOK, Revisions, NEW p \in Pickers, Pick(p)
  PROVE  Revisions'
  <1> USE ConstantsAssumption
  <1> DEFINE m == ProcessOf[p]
  <1>1. /\ p \in Readers /\ m \in Processes /\ Pickers \subseteq Readers
        /\ \A x \in Readers : x \in Actors /\ ProcessOf[x] \in Processes
    BY DEF Actors, Readers
  <1>2. \A x \in Readers : x # p => pc'[x] = pc[x]
    BY <1>1 DEF Pick, ReadRevision, Reconcile, TakeSnapshot, NoSnapshot, ReadGeneration, ReadBans,
               ReadInvalids, PublishOwn, UseCurrent, StateChanged, EndPick, Goto, TypeOK
  <1>3. UNCHANGED << revision, pending >>
    BY DEF Pick, ReadRevision, Reconcile, TakeSnapshot, NoSnapshot, ReadGeneration, ReadBans,
           ReadInvalids, PublishOwn, UseCurrent, StateChanged, EndPick, process
  \* Steps that leave the process and the reader's snapshot alone.
  <1>4. ASSUME UNCHANGED << observed, cache, read, revRead, need >>,
               current' \subseteq current \cup {p},
               p \in current' => observed[m] # Closed,
               Queried(p)' => Queried(p), Owed(p)' => Owed(p), pc'[p] # "filter"
        PROVE  Revisions'
    <2>1. \A x \in Readers : Queried(x)' => Queried(x)
      BY <1>1, <1>2, <1>4 DEF Queried
    <2>2. \A q \in Pickers : Owed(q)' => Owed(q)
      BY <1>1, <1>2, <1>4 DEF Owed
    <2>3. ClosedIsEmpty'
      BY <1>1, <1>3, <1>4 DEF Revisions, ClosedIsEmpty, Known, Of
    <2>4. QED
      BY <1>1, <1>2, <1>3, <1>4, <2>1, <2>2, <2>3 DEF Revisions, Bounded, ReadersAhead,
         ObservedIsReflected, PicksCaughtUp, FiltersWithCurrentState, Known
  <1>5. CASE NoSnapshot(p) \/ ReadGeneration(p) \/ ReadInvalids(p) \/ StateChanged(p)
    <2>1. /\ UNCHANGED << observed, cache, read, revRead, need >>
          /\ current' \subseteq current \cup {p}
          /\ p \in current' => observed[m] # Closed
          /\ pc[p] \in {"snapshot", "generation", "invalids", "publish"}
          /\ pc'[p] \in {"generation", "bans", "publish", "again", "unavailable"}
          /\ pc'[p] = "publish" => pc[p] = "invalids" /\ current' = current
      BY <1>1, <1>5 DEF NoSnapshot, ReadGeneration, ReadInvalids, StateChanged, process, pick,
         Goto, Open, Revisions, ClosedIsEmpty, Of, TypeOK
    <2>2. QED
      BY <1>4, <2>1 DEF Queried, Owed
  \* What the process observed may be newer or older than what the pick read; what
  \* the pick needs is neither.
  <1>6. CASE ReadRevision(p)
    <2>1. /\ UNCHANGED << observed, cache, read, current >>
          /\ need' = [need EXCEPT ![p] = revision]
          /\ IF observed[m] # Closed
               THEN pc'[p] = "reconcile" /\ revRead' = [revRead EXCEPT ![p] = revision]
               ELSE pc'[p] = "snapshot" /\ revRead' = revRead
      BY <1>1, <1>6 DEF ReadRevision, process, Goto, Open, TypeOK
    <2>2. \A x \in Readers : Queried(x)' => Queried(x)
      BY <1>1, <1>2, <2>1 DEF Queried
    <2>3. Bounded'
      BY <1>1, <1>3, <2>1, Numbers DEF Revisions, Bounded, Known, TypeOK
    <2>4. ClosedIsEmpty' /\ ReadersAhead' /\ ObservedIsReflected'
      BY <1>3, <2>1, <2>2 DEF Revisions, ClosedIsEmpty, ReadersAhead, ObservedIsReflected, Known
    <2>5. FiltersWithCurrentState'
      BY <1>1, <1>2, <2>1 DEF Revisions, FiltersWithCurrentState, TypeOK
    <2>6. PicksCaughtUp'
      <3>1. \A q \in Pickers : q # p => (Owed(q)' <=> Owed(q)) /\ need'[q] = need[q]
        BY <1>1, <1>2, <2>1 DEF Owed, TypeOK
      <3>2. Owed(p)' => observed[m] = Closed
        BY <1>1, <2>1, Numbers DEF Owed, TypeOK
      <3>3. observed[m] = Closed => \A x \in Readers : ProcessOf[x] = m => ~Queried(x)
        BY <1>1 DEF Revisions, ClosedIsEmpty, Queried, Of
      <3>4. observed[m] = Closed => ~Known(m)
        BY <1>1 DEF Revisions, ClosedIsEmpty
      <3>5. QED
        BY <1>1, <1>3, <2>1, <2>2, <3>1, <3>2, <3>3, <3>4 DEF Revisions, PicksCaughtUp, Known
    <2>7. QED
      BY <2>3, <2>4, <2>5, <2>6 DEF Revisions
  <1>7. CASE Reconcile(p)
    <2>1. /\ pc[p] = "reconcile" /\ pc'[p] = "snapshot"
          /\ observed' = [observed EXCEPT ![m] = revRead[p]]
          /\ revRead' = [revRead EXCEPT ![p] = 0]
          /\ UNCHANGED << read, need >>
          /\ IF revRead[p] # observed[m]
               THEN /\ cache' = [cache EXCEPT ![m] = Unknown]
                    /\ current' = current \ Of(m, Readers)
               ELSE UNCHANGED << cache, current >>
      BY <1>1, <1>7 DEF Reconcile, Forget, Bump, Goto, TypeOK
    <2>2. Bounded'
      BY <1>1, <1>3, <2>1, Numbers DEF Revisions, Bounded, Known, TypeOK
    <2>3. FiltersWithCurrentState'
      BY <1>1, <1>2, <2>1 DEF Revisions, FiltersWithCurrentState
    <2>4. \A x \in Readers : Queried(x)' => Queried(x)
      BY <1>1, <1>2, <2>1 DEF Queried
    <2>5. \A q \in Pickers : q # p => (Owed(q)' <=> Owed(q))
      BY <1>1, <1>2, <2>1 DEF Owed, TypeOK
    <2>6. ~Queried(p)'
      BY <2>1 DEF Queried
    <2>7. revRead[p] # Closed
      BY <1>1 DEF TypeOK
    <2>8. CASE revRead[p] # observed[m]
      <3>1. /\ ~Known(m)' /\ \A k \in Processes : k # m => cache'[k] = cache[k]
            /\ \A x \in Readers : ProcessOf[x] = m => ~Queried(x)'
        BY <1>1, <2>1, <2>8 DEF Known, Queried, Of, TypeOK
      <3>2. ClosedIsEmpty'
        BY <1>1, <2>1, <2>7, <2>8 DEF Revisions, ClosedIsEmpty, Known, Of, TypeOK
      <3>3. ReadersAhead' /\ ObservedIsReflected'
        BY <1>1, <2>1, <2>4, <2>6, <3>1 DEF Revisions, ReadersAhead, ObservedIsReflected, Known,
           TypeOK
      <3>4. PicksCaughtUp'
        BY <1>1, <1>3, <2>1, <2>4, <2>5, <2>6, <3>1 DEF Revisions, PicksCaughtUp, Known, TypeOK
      <3>5. QED
        BY <2>2, <2>3, <3>2, <3>3, <3>4 DEF Revisions
    <2>9. CASE revRead[p] = observed[m]
      <3>1. UNCHANGED << observed, cache, current >>
        BY <1>1, <2>1, <2>9 DEF TypeOK
      <3>2. \A q \in Pickers : Owed(q)' =>
              Owed(q) \/ (q = p /\ observed[m] # Closed /\ need[p] = observed[m])
        BY <1>1, <2>1, <2>5, <2>7, <2>9, Numbers DEF Owed, Revisions, Bounded
      <3>3. PicksCaughtUp'
        BY <1>1, <1>3, <2>1, <2>4, <2>6, <3>1, <3>2 DEF Revisions, PicksCaughtUp, ReadersAhead,
           ObservedIsReflected, Known
      <3>4. QED
        BY <2>1, <2>2, <2>3, <2>4, <2>6, <3>1, <3>3 DEF Revisions, ClosedIsEmpty, ReadersAhead,
           ObservedIsReflected, Known
    <2>10. QED
      BY <2>8, <2>9
  \* The snapshot of the process is taken over.
  <1>8. CASE TakeSnapshot(p) \/ UseCurrent(p)
    <2>1. /\ pc'[p] = "filter" /\ Known(m) /\ Owed(p)
          /\ UNCHANGED << observed, cache, need, revRead >> /\ current' \subseteq current
          /\ read' = [read EXCEPT ![p] = cache[m].asOf]
      BY <1>1, <1>8 DEF TakeSnapshot, UseCurrent, process, pick, Goto, Usable, Fresh, Owed, TypeOK
    <2>2. \A x \in Readers : Queried(x)' => Queried(x) /\ read'[x] = read[x]
      BY <1>1, <1>2, <2>1 DEF Queried, TypeOK
    <2>3. \A q \in Pickers : Owed(q)' => Owed(q)
      BY <1>1, <1>2, <2>1 DEF Owed
    <2>4. read'[p] = cache[m].asOf /\ \A x \in Readers : x # p => read'[x] = read[x]
      BY <1>1, <2>1 DEF TypeOK
    <2>5. Bounded'
      BY <1>1, <1>3, <2>1, <2>4 DEF Revisions, Bounded, Known
    <2>6. FiltersWithCurrentState'
      BY <1>1, <1>2, <2>1, <2>4 DEF Revisions, FiltersWithCurrentState, PicksCaughtUp
    <2>7. QED
      BY <1>1, <1>3, <2>1, <2>2, <2>3, <2>5, <2>6 DEF Revisions, ClosedIsEmpty, ReadersAhead,
         ObservedIsReflected, PicksCaughtUp, Known, Of
  <1>9. CASE ReadBans(p)
    <2>1. /\ UNCHANGED << observed, cache, current, need, revRead >>
          /\ read' = [read EXCEPT ![p] = revision] /\ pc[p] = "bans" /\ pc'[p] = "invalids"
      BY <1>1, <1>9 DEF ReadBans, process, pick, Goto, TypeOK
    <2>2. Bounded'
      BY <1>1, <1>3, <2>1, Numbers DEF Revisions, Bounded, Known, TypeOK
    <2>3. \A q \in Pickers : Owed(q)' <=> Owed(q)
      BY <1>1, <1>2, <2>1 DEF Owed
    <2>4. \A x \in Readers : Queried(x)' =>
             \/ x = p /\ read'[x] = revision
             \/ x # p /\ Queried(x) /\ read'[x] = read[x]
      BY <1>1, <1>2, <2>1 DEF Queried, TypeOK
    <2>5. ReadersAhead' /\ PicksCaughtUp'
      BY <1>1, <1>3, <2>1, <2>3, <2>4, Numbers DEF Revisions, Bounded, ReadersAhead,
         PicksCaughtUp, Known
    <2>6. FiltersWithCurrentState'
      BY <1>1, <1>2, <2>1 DEF Revisions, FiltersWithCurrentState, TypeOK
    <2>7. QED
      BY <1>3, <2>1, <2>2, <2>5, <2>6 DEF Revisions, ClosedIsEmpty, ObservedIsReflected, Known
  <1>10. CASE PublishOwn(p)
    <2>1. /\ UNCHANGED << observed, read, need, revRead >>
          /\ cache' = [cache EXCEPT ![m] = Snapshot(read[p])]
          /\ current' = current \ Of(m, Readers) /\ pc'[p] = "filter"
          /\ pending[m] = 0 /\ Queried(p) /\ Owed(p) /\ observed[m] # Closed
      BY <1>1, <1>10 DEF PublishOwn, Publishable, Publish, Bump, process, pick, Goto, Queried,
         Owed, Revisions, ClosedIsEmpty, Of, TypeOK
    <2>2. cache'[m].asOf = read[p] /\ \A k \in Processes : k # m => cache'[k] = cache[k]
      BY <1>1, <2>1 DEF Snapshot, TypeOK
    <2>3. Bounded'
      BY <1>1, <1>3, <2>1, <2>2 DEF Revisions, Bounded, Known
    <2>4. ClosedIsEmpty'
      BY <1>1, <2>1, <2>2 DEF Revisions, ClosedIsEmpty, Known, Of
    <2>5. \A x \in Readers : Queried(x)' => Queried(x) /\ ProcessOf[x] # m
      BY <1>1, <1>2, <2>1 DEF Queried, Of
    <2>6. ReadersAhead' /\ ObservedIsReflected'
      BY <1>1, <2>1, <2>2, <2>5 DEF Revisions, ReadersAhead, ObservedIsReflected, Known
    <2>7. \A q \in Pickers : Owed(q)' => Owed(q)
      BY <1>1, <1>2, <2>1 DEF Owed
    <2>8. PicksCaughtUp'
      BY <1>1, <1>3, <2>1, <2>2, <2>5, <2>7 DEF Revisions, PicksCaughtUp, Known
    <2>9. FiltersWithCurrentState'
      BY <1>1, <1>2, <2>1 DEF Revisions, FiltersWithCurrentState, PicksCaughtUp
    <2>10. QED
      BY <2>3, <2>4, <2>6, <2>8, <2>9 DEF Revisions
  <1>11. CASE EndPick(p)
    <2>1. /\ UNCHANGED << observed, cache >> /\ current' = current \ {p} /\ pc'[p] = "idle"
          /\ read' = [read EXCEPT ![p] = 0]
          /\ revRead' = [revRead EXCEPT ![p] = 0] /\ need' = [need EXCEPT ![p] = 0]
      BY <1>1, <1>11 DEF EndPick, Return, process, Goto, TypeOK
    <2>2. \A x \in Readers : Queried(x)' => Queried(x) /\ x # p
      BY <1>1, <1>2, <2>1 DEF Queried
    <2>3. \A q \in Pickers : Owed(q)' => Owed(q) /\ q # p
      BY <1>1, <1>2, <2>1 DEF Owed, TypeOK
    <2>4. Bounded'
      BY <1>1, <1>3, <2>1, Numbers DEF Revisions, Bounded, Known, TypeOK
    <2>5. FiltersWithCurrentState'
      BY <1>1, <1>2, <2>1 DEF Revisions, FiltersWithCurrentState, TypeOK
    <2>6. QED
      BY <1>1, <1>3, <2>1, <2>2, <2>3, <2>4, <2>5 DEF Revisions, ClosedIsEmpty, ReadersAhead,
         ObservedIsReflected, PicksCaughtUp, Known, Of, TypeOK
  <1>12. QED
    BY <1>5, <1>6, <1>7, <1>8, <1>9, <1>10, <1>11 DEF Pick

\* Opening a store, time, a new configuration and a restart keep the revisions in
\* order.
LEMMA ProcessStep ==
  ASSUME TypeOK, Revisions, NEW m \in Processes,
         OpenStore(m) \/ Age(m) \/ Reconfigure(m) \/ Restart(m)
  PROVE  Revisions'
  <1> USE ConstantsAssumption
  <1>1. /\ Pickers \subseteq Readers
        /\ \A x \in Readers : x \in Actors /\ ProcessOf[x] \in Processes
        /\ \A p \in Pickers : p \notin Workers
    BY DEF Actors, Readers, Refreshers
  <1>2. UNCHANGED revision
    BY DEF OpenStore, Age, Reconfigure, Restart
  <1>3. CASE OpenStore(m)
    <2>1. /\ UNCHANGED << cache, pending, current, pc, read, revRead, need >>
          /\ observed' = [observed EXCEPT ![m] = revision] /\ observed[m] = Closed
      BY <1>3 DEF OpenStore, pick
    <2>2. ~Known(m) /\ \A x \in Readers : ProcessOf[x] = m => ~Queried(x)
      BY <1>1, <2>1 DEF Revisions, ClosedIsEmpty, Queried, Of
    <2>3. Bounded'
      BY <1>1, <1>2, <2>1, Numbers DEF Revisions, Bounded, Known, TypeOK
    <2>4. ClosedIsEmpty' /\ ReadersAhead' /\ ObservedIsReflected'
      BY <1>1, <1>2, <2>1, <2>2, Numbers DEF Revisions, ClosedIsEmpty, ReadersAhead,
         ObservedIsReflected, Known, Queried, TypeOK
    <2>5. PicksCaughtUp' /\ FiltersWithCurrentState'
      BY <1>1, <2>1 DEF Revisions, PicksCaughtUp, FiltersWithCurrentState, Known, Queried, Owed
    <2>6. QED
      BY <2>3, <2>4, <2>5 DEF Revisions
  <1>4. CASE Age(m)
    <2>1. UNCHANGED << revision, observed, pending, current, pc, read, revRead, need >>
      BY <1>4 DEF Age, pick
    <2>2. \A k \in Processes :
             (Known(k)' => Known(k)) /\ (Known(k)' => cache'[k].asOf = cache[k].asOf)
      <3>1. cache[m] \in Snapshots
        BY <1>4 DEF Age, Usable, Known, TypeOK, Snapshots
      <3>2. QED
        BY <1>4, <3>1 DEF Age, Usable, Known, TypeOK, Snapshots
    <2>3. QED
      BY <1>1, <2>1, <2>2 DEF Revisions, Bounded, ClosedIsEmpty, ReadersAhead,
         ObservedIsReflected, PicksCaughtUp, FiltersWithCurrentState, Queried, Owed
  <1>5. CASE Reconfigure(m) \/ Restart(m)
    <2>1. /\ cache' = [cache EXCEPT ![m] = Unknown] /\ current' = current \ Of(m, Readers)
          /\ observed' = observed \/ observed' = [observed EXCEPT ![m] = Closed]
          /\ \A k \in Processes : k # m => pending'[k] = pending[k]
      BY <1>5 DEF Reconfigure, Restart, Forget, Bump, pick, TypeOK
    <2>2. \A x \in Readers : ProcessOf[x] # m => pc'[x] = pc[x] /\ read'[x] = read[x]
      BY <1>1, <1>5 DEF Reconfigure, Restart, Return, Of
    <2>3. \A x \in Readers : read'[x] = 0 \/ read'[x] = read[x]
      BY <1>5 DEF Reconfigure, Restart, Return, TypeOK
    <2>4. \A p \in Pickers :
             IF ProcessOf[p] = m
               THEN /\ pc'[p] = "idle"
                    /\ \/ need'[p] = need[p] /\ revRead'[p] = revRead[p]
                       \/ need'[p] = 0 /\ revRead'[p] = 0
               ELSE need'[p] = need[p] /\ revRead'[p] = revRead[p]
      <3>1. CASE Reconfigure(m)
        <4>1. \A p \in Pickers : ProcessOf[p] = m => pc[p] = "idle"
          BY <3>1 DEF Reconfigure, Of
        <4>2. \A p \in Pickers : pc'[p] = pc[p]
          BY <1>1, <3>1 DEF Reconfigure, Of
        <4>3. QED
          BY <3>1, <4>1, <4>2 DEF Reconfigure, pick
      <3>2. CASE Restart(m)
        <4>1. \A p \in Pickers : ProcessOf[p] = m => pc'[p] = "idle"
          BY <1>1, <3>2 DEF Restart, Start
        <4>2. \A p \in Pickers :
                 IF ProcessOf[p] = m THEN need'[p] = 0 /\ revRead'[p] = 0
                                     ELSE need'[p] = need[p] /\ revRead'[p] = revRead[p]
          BY <1>1, <3>2 DEF Restart, Return, Of
        <4>3. QED
          BY <4>1, <4>2
      <3>3. QED
        BY <1>5, <3>1, <3>2
    <2>5. Bounded'
      BY <1>1, <1>2, <2>1, <2>3, <2>4, Numbers DEF Revisions, Bounded, Known, TypeOK
    <2>6. ClosedIsEmpty'
      BY <1>1, <2>1 DEF Revisions, ClosedIsEmpty, Known, Of, TypeOK
    <2>7. \A x \in Readers : Queried(x)' => Queried(x) /\ ProcessOf[x] # m
      BY <1>1, <2>1, <2>2 DEF Queried, Of
    <2>8. \A p \in Pickers : Owed(p)' => Owed(p) /\ ProcessOf[p] # m
      BY <1>1, <2>2, <2>4 DEF Owed
    <2>9. ReadersAhead' /\ ObservedIsReflected' /\ PicksCaughtUp'
      BY <1>1, <2>1, <2>2, <2>4, <2>7, <2>8 DEF Revisions, ReadersAhead, ObservedIsReflected,
         PicksCaughtUp, Known, TypeOK
    <2>10. FiltersWithCurrentState'
      BY <1>1, <2>2, <2>4 DEF Revisions, FiltersWithCurrentState
    <2>11. QED
      BY <2>5, <2>6, <2>9, <2>10 DEF Revisions
  <1>6. QED
    BY <1>3, <1>4, <1>5

\* Before any store is open nothing is observed, served or read.
LEMMA InitRevisions == Init => Revisions
  <1> USE ConstantsAssumption DEF Init
  <1>0. /\ Pickers \subseteq Readers
        /\ \A x \in Readers : x \in Actors /\ ProcessOf[x] \in Processes
    BY DEF Actors, Readers
  <1>1. Init => Bounded
    BY DEF Bounded, Known
  <1>2. Init => ClosedIsEmpty /\ ReadersAhead /\ ObservedIsReflected
    BY DEF ClosedIsEmpty, ReadersAhead, ObservedIsReflected, Known, Queried
  <1>3. Init => PicksCaughtUp /\ FiltersWithCurrentState
    BY <1>0 DEF PicksCaughtUp, FiltersWithCurrentState, Known, Queried, Start
  <1>4. QED
    BY <1>1, <1>2, <1>3 DEF Revisions

-----------------------------------------------------------------------------
(* The theorems                                                            *)

\* The inductive invariant.
IInv == TypeOK /\ PendingFailsClosed /\ RetriedOnce /\ Revisions

\* It holds before the first store is opened.
LEMMA IInvInit == Init => IInv
  BY InitTypes, InitRevisions DEF IInv

\* Every step of every goroutine keeps it.
LEMMA IInvStep == IInv /\ [Next]_vars => IInv'
  <1> SUFFICES ASSUME IInv, [Next]_vars
               PROVE  IInv'
    OBVIOUS
  <1>1. TypeOK /\ PendingFailsClosed /\ RetriedOnce /\ Revisions
    BY DEF IInv
  <1>2. TypeOK' /\ RetriedOnce' /\ PendingFailsClosed'
    BY <1>1, TypeStep, PendingStep
  <1>3. Revisions'
    <2>1. CASE UNCHANGED vars
      BY <1>1, <2>1 DEF vars, Revisions, Bounded, ClosedIsEmpty, ReadersAhead,
         ObservedIsReflected, PicksCaughtUp, FiltersWithCurrentState, Known, Queried, Owed
    <2>2. CASE Next
      BY <1>1, <2>2, WriterStep, RefreshStep, PickStep, ProcessStep DEF Next, Refreshers
    <2>3. QED
      BY <2>1, <2>2
  <1>4. QED
    BY <1>2, <1>3 DEF IInv

\* The inductive invariant holds in every reachable state.
LEMMA Invariance == Spec => []IInv
  BY IInvInit, IInvStep, PTL DEF Spec

\* The caches, counts and locals of every goroutine keep their types; a pick is
\* retried once (retrySchedulerStateChange), and no restriction count underflows.
THEOREM TypesHold == Spec => []TypeOK
  <1>1. IInv => TypeOK
    BY DEF IInv
  <1>2. QED
    BY <1>1, Invariance, PTL

\* From before a restriction is written until its commit is announced, its process
\* serves no snapshot, however the windows of several writers overlap
\* (beginRestrictionWrite, finishRestrictionWrite).
THEOREM WritesFailClosed == Spec => []PendingFailsClosed
  <1>1. IInv => PendingFailsClosed
    BY DEF IInv
  <1>2. QED
    BY <1>1, Invariance, PTL

\* No process marks a revision of another process as observed while it keeps a
\* snapshot that lacks the change (reconcileProviders, store.open).
THEOREM ObservedReflected == Spec => []ObservedIsReflected
  <1>1. IInv => ObservedIsReflected
    BY DEF IInv, Revisions
  <1>2. QED
    BY <1>1, Invariance, PTL

\* Every pick filters with every change that any process committed before the pick
\* read the revision, and every restriction its own process committed before the
\* pick obtained its snapshot (queryPersistentSchedulerRevisions to
\* publishCodexOrCurrent).
THEOREM PicksFilterWithCurrentState == Spec => []FiltersWithCurrentState
  <1>1. IInv => FiltersWithCurrentState
    BY DEF IInv, Revisions
  <1>2. QED
    BY <1>1, Invariance, PTL

\* Neither a pick nor a refresh replaces a snapshot by an older one
\* (applySnapshotRefresh, publishCodexOrCurrent).
THEOREM SnapshotsAreMonotone == Spec => SnapshotsMoveForward
  <1> DEFINE Forward == \A m \in Processes : Known(m) /\ cache'[m] # Unknown =>
                          cache'[m].asOf >= cache[m].asOf
  <1>1. IInv /\ [Next]_vars => [Forward]_vars
    <2> SUFFICES ASSUME IInv, Next
                 PROVE  Forward
      OBVIOUS
    <2> USE ConstantsAssumption
    <2>1. TypeOK /\ Revisions
      BY DEF IInv
    <2>2. Pickers \subseteq Readers /\ Refreshers \subseteq Readers
      BY DEF Readers
    <2>3. \A m \in Processes : Known(m) => cache[m] \in Snapshots
      BY <2>1 DEF TypeOK, Known, Snapshots
    \* A step forgets snapshots, lets one age, or publishes one that was queried.
    <2>4. ASSUME cache' = cache \/ \E m \in Processes : cache' = [cache EXCEPT ![m] = Unknown]
          PROVE  Forward
      BY <2>1, <2>4, Numbers DEF Known, TypeOK
    <2>5. ASSUME NEW x \in Readers, pc[x] = "publish", Publishable(x), Publish(x)
          PROVE  Forward
      <3>1. Queried(x) /\ ProcessOf[x] \in Processes
        BY <2>5 DEF Publishable, Queried, Actors
      <3>2. cache' = [cache EXCEPT ![ProcessOf[x]] = Snapshot(read[x])]
        BY <2>5 DEF Publish
      <3>3. /\ cache'[ProcessOf[x]].asOf = read[x]
            /\ \A k \in Processes : k # ProcessOf[x] => cache'[k] = cache[k]
        BY <2>1, <3>1, <3>2 DEF Snapshot, TypeOK
      <3>4. QED
        BY <2>1, <3>1, <3>3, Numbers DEF Revisions, ReadersAhead, Known
    <2>6. CASE \E w \in Writers : Write(w)
      <3>1. \A w \in Writers : ProcessOf[w] \in Processes
        BY DEF Actors
      <3>2. QED
        BY <2>4, <2>6, <3>1 DEF Write, BeginWrite, CommitWrite, FinishWrite, CommitLift,
           AnnounceLift, LiftUnannounced, Forget, process
    <2>7. CASE \/ \E r \in Refreshers : Refresh(r)
               \/ \E r \in Workers : WorkerWakes(r)
      BY <2>2, <2>4, <2>5, <2>7 DEF Refresh, BeginRefresh, ReadBans, ReadInvalids, ApplyRefresh,
         RefreshFails, WorkerWakes, process
    <2>8. CASE \E p \in Pickers : Pick(p)
      <3>1. \A p \in Pickers : ProcessOf[p] \in Processes
        BY DEF Actors, Readers
      <3>2. QED
        BY <2>2, <2>4, <2>5, <2>8, <3>1 DEF Pick, ReadRevision, Reconcile, TakeSnapshot,
           NoSnapshot, ReadGeneration, ReadBans, ReadInvalids, PublishOwn, UseCurrent,
           StateChanged, EndPick, Forget, process
    <2>9. CASE \E m \in Processes : OpenStore(m) \/ Reconfigure(m) \/ Restart(m)
      BY <2>4, <2>9 DEF OpenStore, Reconfigure, Restart, Forget
    <2>10. ASSUME NEW m \in Processes, Age(m)
           PROVE  Forward
      <3>1. cache[m] \in Snapshots
        BY <2>3, <2>10 DEF Age, Usable
      <3>2. \A k \in Processes : cache'[k] # Unknown /\ Known(k) => cache'[k].asOf = cache[k].asOf
        BY <2>1, <2>10, <3>1 DEF Age, TypeOK, Snapshots
      <3>3. QED
        BY <2>1, <3>2, Numbers DEF Known
    <2>11. QED
      BY <2>6, <2>7, <2>8, <2>9, <2>10 DEF Next
  <1>2. QED
    BY <1>1, Invariance, PTL DEF Spec, SnapshotsMoveForward

\* Every step of the snapshot protocol is one of the view, or invisible in it.
LEMMA StepIsViewStep ==
  IInv /\ IInv' /\ [Next]_vars
    => [View!Next]_<< revision, [p \in Pickers |-> Floor(p)], [p \in Pickers |-> Seen(p)] >>
  <1> DEFINE floor == [p \in Pickers |-> Floor(p)]
             seen == [p \in Pickers |-> Seen(p)]
             Unseen == UNCHANGED << revision, floor, seen >>
  <1> SUFFICES ASSUME IInv, IInv', [Next]_vars
               PROVE  [View!Next]_<< revision, floor, seen >>
    OBVIOUS
  <1> USE ConstantsAssumption
  <1>1. /\ revision \in Int /\ Pickers \subseteq Actors /\ Pickers \subseteq Readers
        /\ pc \in [Actors -> Labels] /\ need \in [Pickers -> 0 .. MaxRevision]
        /\ read \in [Readers -> 0 .. MaxRevision] /\ need' \in [Pickers -> 0 .. MaxRevision]
        /\ revision' \in 0 .. MaxRevision
    BY DEF IInv, TypeOK, Actors, Readers, Labels
  <1>2. ASSUME UNCHANGED revision, \A p \in Pickers : Floor(p)' = Floor(p) /\ Seen(p)' = Seen(p)
        PROVE  Unseen
    BY <1>2
  <1>3. ASSUME UNCHANGED << revision, read, need >>, NEW x \in Actors, NEW label,
               Goto(x, label), x \in Pickers => pc[x] \notin {"idle", "filter"},
               x \in Pickers => label \notin {"idle", "filter"}
        PROVE  Unseen
    <2>1. \A p \in Pickers : Floor(p)' = Floor(p) /\ Seen(p)' = Seen(p)
      BY <1>1, <1>3 DEF Floor, Seen, Goto
    <2> QED
      BY <1>2, <1>3, <2>1
  \* What other goroutines do with their own labels and reads.
  <1>4. ASSUME UNCHANGED << revision, need >>,
               \A p \in Pickers : pc'[p] = pc[p] /\ read'[p] = read[p]
        PROVE  Unseen
    <2>1. \A p \in Pickers : Floor(p)' = Floor(p) /\ Seen(p)' = Seen(p)
      BY <1>4 DEF Floor, Seen
    <2> QED
      BY <1>2, <1>4, <2>1
  <1>5. ASSUME NEW S \in SUBSET Pickers, UNCHANGED revision,
               \A p \in Pickers : Floor(p)' = IF p \in S THEN -1 ELSE Floor(p),
               \A p \in Pickers : Seen(p)' = IF p \in S THEN -1 ELSE Seen(p)
        PROVE  View!Next
    <2>1. View!Leave(S)
      BY <1>5 DEF View!Leave, View!NoVersion
    <2> QED
      BY <2>1 DEF View!Next
  \* A pick gets its snapshot: what it filters with is current by the invariant.
  <1>6. ASSUME NEW p \in Pickers, UNCHANGED << revision, need >>, Goto(p, "filter"),
               pc[p] \notin {"idle", "filter"},
               \A q \in Pickers \ {p} : read'[q] = read[q]
        PROVE  View!Next
    <2>1. pc'[p] = "filter" /\ \A q \in Pickers \ {p} : pc'[q] = pc[q]
      BY <1>1, <1>6 DEF Goto
    <2>2. need'[p] <= read'[p] /\ read'[p] <= revision' /\ read'[p] \in Int
      BY <1>1, <2>1 DEF IInv, Revisions, FiltersWithCurrentState, Bounded, TypeOK
    <2>3. \A q \in Pickers : /\ Floor(q)' = Floor(q)
                             /\ Seen(q)' = IF q = p THEN read'[p] ELSE Seen(q)
      BY <1>6, <2>1 DEF Floor, Seen
    <2>4. Floor(p) = need[p] /\ Floor(p) # -1 /\ Seen(p) = -1
      BY <1>1, <1>6 DEF Floor, Seen
    <2>5. read'[p] \in floor[p] .. revision
      BY <1>1, <1>6, <2>2, <2>4
    <2>6. View!Serve(p)
      BY <1>6, <2>3, <2>4, <2>5 DEF View!Serve, View!NoVersion
    <2> QED
      BY <2>6 DEF View!Next
  <1>7. ASSUME NEW w \in Writers, Write(w)
        PROVE  Unseen \/ View!Next
    <2>1. w \in Actors /\ w \notin Readers /\ w \notin Pickers
      BY DEF Actors, Readers
    <2>2. CASE CommitWrite(w)
      <3> DEFINE m == ProcessOf[w]
                 S == {p \in Pickers : ProcessOf[p] = m /\ pc[p] \notin {"idle", "filter", "unavailable"}}
      <3>1. revision' = revision + 1 /\ pc' = pc /\ read' = read
            /\ need' = [p \in Pickers |-> IF p \in S THEN revision + 1 ELSE need[p]]
        BY <2>2 DEF CommitWrite
      <3>2. \A p \in S : pc[p] # "idle" /\ pc[p] # "filter"
        OBVIOUS
      <3> HIDE DEF S
      <3>3. S \in SUBSET {p \in Pickers : floor[p] # -1 /\ seen[p] = -1}
        <4>1. S \subseteq Pickers
          BY DEF S
        <4> QED
          BY <1>1, <3>2, <4>1 DEF Floor, Seen
      <3>4. \A p \in Pickers : /\ Floor(p)' = IF p \in S THEN revision + 1 ELSE Floor(p)
                               /\ Seen(p)' = Seen(p)
        BY <3>1, <3>2 DEF Floor, Seen
      <3>5. floor' = [p \in Pickers |-> IF p \in S THEN revision + 1 ELSE floor[p]] /\ seen' = seen
        BY <3>4
      <3>6. View!Change
        BY <3>1, <3>3, <3>5 DEF View!Change, View!NoVersion
      <3> QED
        BY <3>6 DEF View!Next
    <2>3. CASE CommitLift(w)
      <3>1. revision' = revision + 1 /\ \A p \in Pickers : Floor(p)' = Floor(p) /\ Seen(p)' = Seen(p)
        BY <1>1, <2>1, <2>3 DEF CommitLift, Goto, Floor, Seen, pick
      <3>2. floor' = [p \in Pickers |-> IF p \in {} THEN revision + 1 ELSE floor[p]] /\ seen' = seen
        BY <3>1
      <3>3. View!Change
        BY <3>1, <3>2 DEF View!Change
      <3> QED
        BY <3>3 DEF View!Next
    <2>4. CASE BeginWrite(w) \/ FinishWrite(w) \/ AnnounceLift(w) \/ LiftUnannounced(w)
      <3>1. /\ UNCHANGED << revision, need >>
            /\ \A p \in Pickers : pc'[p] = pc[p] /\ read'[p] = read[p]
        BY <1>1, <2>1, <2>4 DEF BeginWrite, FinishWrite, AnnounceLift, LiftUnannounced, Goto, pick
      <3> QED
        BY <1>4, <3>1
    <2> QED
      BY <1>7, <2>2, <2>3, <2>4 DEF Write
  <1>8. ASSUME NEW r \in Refreshers, Refresh(r) \/ WorkerWakes(r)
        PROVE  Unseen
    <2>1. r \in Actors /\ r \notin Pickers
      BY DEF Actors, Readers
    <2>2. /\ UNCHANGED << revision, need >>
          /\ \A p \in Pickers : pc'[p] = pc[p] /\ read'[p] = read[p]
      BY <1>1, <1>8, <2>1 DEF Refresh, WorkerWakes, BeginRefresh, ReadBans, ReadInvalids,
         ApplyRefresh, RefreshFails, Goto, pick
    <2> QED
      BY <1>4, <2>2
  <1>9. ASSUME NEW p \in Pickers, ReadRevision(p)
        PROVE  View!Next
    <2>1. /\ pc[p] \in {"idle", "again"} /\ need' = [need EXCEPT ![p] = revision]
          /\ revision' = revision /\ read' = read
          /\ Goto(p, "reconcile") \/ Goto(p, "snapshot")
      BY <1>9 DEF ReadRevision
    <2>2. \A q \in Pickers : /\ Floor(q)' = IF q = p THEN revision ELSE Floor(q)
                             /\ Seen(q)' = Seen(q)
      BY <1>1, <2>1 DEF Floor, Seen, Goto
    <2>3. Seen(p) = -1
      BY <2>1 DEF Seen
    <2>4. View!Begin(p)
      BY <2>1, <2>2, <2>3 DEF View!Begin, View!NoVersion
    <2> QED
      BY <2>4 DEF View!Next
  <1>10. ASSUME NEW p \in Pickers, TakeSnapshot(p) \/ PublishOwn(p) \/ UseCurrent(p)
         PROVE  View!Next
    <2>1. /\ UNCHANGED << revision, need >> /\ Goto(p, "filter") /\ pc[p] \in {"snapshot", "publish"}
          /\ \A q \in Pickers \ {p} : read'[q] = read[q]
      BY <1>1, <1>10 DEF TakeSnapshot, PublishOwn, UseCurrent, pick
    <2> QED
      BY <1>6, <2>1
  <1>11. ASSUME NEW p \in Pickers, ReadBans(p)
         PROVE  Unseen
    <2>1. \A q \in Pickers : Floor(q)' = Floor(q) /\ Seen(q)' = Seen(q)
      BY <1>1, <1>11 DEF ReadBans, Goto, Floor, Seen, pick
    <2> QED
      BY <1>2, <1>11, <2>1 DEF ReadBans
  <1>12. ASSUME NEW p \in Pickers,
                \/ Reconcile(p) \/ NoSnapshot(p) \/ ReadGeneration(p)
                \/ ReadInvalids(p) \/ StateChanged(p)
         PROVE  Unseen
    <2>1. /\ UNCHANGED << revision, read, need >>
          /\ pc[p] \in {"reconcile", "snapshot", "generation", "invalids", "publish"}
          /\ \/ Goto(p, "snapshot") \/ Goto(p, "generation") \/ Goto(p, "bans")
             \/ Goto(p, "publish") \/ Goto(p, "again") \/ Goto(p, "unavailable")
      BY <1>12 DEF Reconcile, NoSnapshot, ReadGeneration, ReadInvalids, StateChanged, pick
    <2> HIDE DEF Unseen
    <2> QED
      BY <1>1, <1>3, <2>1
  <1>13. ASSUME NEW p \in Pickers, EndPick(p)
         PROVE  View!Next
    <2>1. \A q \in Pickers : /\ Floor(q)' = IF q \in {p} THEN -1 ELSE Floor(q)
                             /\ Seen(q)' = IF q \in {p} THEN -1 ELSE Seen(q)
      BY <1>1, <1>13 DEF EndPick, Return, Goto, Floor, Seen
    <2>2. {p} \in SUBSET Pickers /\ revision' = revision
      BY <1>13 DEF EndPick
    <2> HIDE DEF Unseen
    <2> QED
      BY <1>5, <2>1, <2>2
  <1>14. ASSUME NEW m \in Processes, OpenStore(m) \/ Age(m)
         PROVE  Unseen
    BY <1>4, <1>14 DEF OpenStore, Age, pick
  <1>15. ASSUME NEW m \in Processes, Reconfigure(m)
         PROVE  Unseen
    <2>1. \A p \in Pickers : p \notin Workers /\ p \in Actors
      BY <1>1 DEF Refreshers
    <2>2. /\ UNCHANGED << revision, need >>
          /\ \A p \in Pickers : pc'[p] = pc[p] /\ read'[p] = read[p]
      BY <1>1, <1>15, <2>1 DEF Reconfigure, Of, pick
    <2> QED
      BY <1>4, <2>2
  <1>16. ASSUME NEW m \in Processes, Restart(m)
         PROVE  View!Next
    <2> DEFINE S == Of(m, Pickers)
    <2>1. S \in SUBSET Pickers /\ revision' = revision
      BY <1>16 DEF Restart, Of
    <2>2. \A p \in Pickers : p \notin Workers /\ p \in Actors /\ p \in Readers
      BY <1>1 DEF Refreshers
    <2>3. \A p \in Pickers : p \in S <=> ProcessOf[p] = m
      BY DEF Of
    <2>4. \A p \in Pickers : /\ pc'[p] = IF p \in S THEN "idle" ELSE pc[p]
                             /\ p \notin S => read'[p] = read[p] /\ need'[p] = need[p]
      <3>1. Return(Of(m, Readers))
            /\ pc' = [x \in Actors |-> IF ProcessOf[x] = m THEN Start(x) ELSE pc[x]]
        BY <1>16 DEF Restart
      <3>2. \A p \in Pickers : pc'[p] = IF p \in S THEN "idle" ELSE pc[p]
        BY <2>2, <2>3, <3>1 DEF Start
      <3>3. \A p \in Pickers : p \in Of(m, Readers) <=> p \in S
        BY <2>2, <2>3 DEF Of
      <3>4. \A p \in Pickers : p \notin S => read'[p] = read[p] /\ need'[p] = need[p]
        BY <2>2, <3>1, <3>3 DEF Return
      <3> QED
        BY <3>2, <3>4
    <2> HIDE DEF S, Unseen
    <2>5. ASSUME NEW p \in Pickers
          PROVE  /\ Floor(p)' = IF p \in S THEN -1 ELSE Floor(p)
                 /\ Seen(p)' = IF p \in S THEN -1 ELSE Seen(p)
      <3>1. CASE p \in S
        BY <2>4, <3>1 DEF Floor, Seen
      <3>2. CASE p \notin S
        BY <2>4, <3>2 DEF Floor, Seen
      <3> QED
        BY <3>1, <3>2
    <2> QED
      BY <1>5, <2>1, <2>5
  <1>17. ASSUME UNCHANGED vars
         PROVE  Unseen
    BY <1>4, <1>17 DEF vars
  <1>18. Unseen \/ View!Next
    <2> HIDE DEF Unseen
    <2>1. Workers \subseteq Refreshers
      BY DEF Refreshers
    <2> QED
      BY <1>7, <1>8, <1>9, <1>10, <1>11, <1>12, <1>13, <1>14, <1>15, <1>16, <1>17, <2>1
         DEF Next, Pick
  <1> QED
    BY <1>18

\* Every pick is served one current view of the restrictions and keeps it
\* (retrySchedulerStateChange, codexForPick, publishCodexOrCurrent), however
\* writers, refreshes, restarts and other picks interleave with its queries.
THEOREM PicksSeeACurrentView == Spec => ImplementsCurrentView
  <1>1. Init => View!Init
    <2>1. ASSUME Init, NEW p \in Pickers
          PROVE  Floor(p) = -1 /\ Seen(p) = -1
      <3>1. p \in Actors /\ p \notin Workers
        BY ConstantsAssumption DEF Actors, Readers, Refreshers
      <3> QED
        BY <2>1, <3>1 DEF Init, Start, Floor, Seen
    <2> QED
      BY <2>1 DEF Init, View!Init, View!NoVersion
  <1>2. QED
    BY <1>1, StepIsViewStep, Invariance, PTL DEF Spec, ImplementsCurrentView, View!Spec

=============================================================================
