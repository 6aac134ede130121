----------------------- MODULE PrivacyRevisionProofs -----------------------
(***************************************************************************)
(* Proofs about PrivacyRevision, for any number of picks and workers, any  *)
(* bound of attempts and any number of marker changes.                     *)
(***************************************************************************)
EXTENDS PrivacyRevision, TLAPS

\* Inside the section that privacyRefreshMu guards.
Refreshing == {"reread", "before", "load", "publish", "after"}

\* privacyRefreshMu is held in its section, and store.mu by an opening.
LocksHeld ==
  /\ \A x \in Actors : pc[x] \in Refreshing => refreshMu = x
  /\ \A x \in Actors : Opening(x) => pc[x] \in {"lock"} \cup (Refreshing \ {"reread"}) /\ ~ready
  /\ \A x \in Actors : pc[x] \in {"lock"} \cup Refreshing => Opening(x) \/ ready
  /\ \A x \in Openers : pc[x] \in {"lock"} \cup Refreshing => Opening(x)
  /\ \A p \in Pickers : pc[p] = "reconcile" => ready

\* Nobody has seen an uncommitted revision; a refresh only moves on.
RefreshInOrder ==
  /\ quarantine <= revision /\ (ready => observed <= quarantine)
  /\ \A x \in Actors :
       /\ rev[x] <= revision
       /\ pc[x] = "publish" => rev[x] <= loaded[x] /\ quarantine <= loaded[x]
                               /\ loaded[x] <= revision
       /\ pc[x] = "after" => rev[x] <= quarantine

\* What a pick that found the store open goes on with covers what it needs.
PicksCovered ==
  /\ found # {} => ready
  /\ \A p \in found :
       /\ need[p] <= revision
       /\ pc[p] = "reconcile" => need[p] <= rev[p]
       /\ pc[p] = "prepare" => need[p] <= quarantine
       /\ pc[p] \in {"prepared", "chosen"} => need[p] <= view[p]

IInv == TypeOK /\ LocksHeld /\ RefreshInOrder /\ PicksCovered

\* The initial state of a process that has not opened its store.
LEMMA IInvInit == Init => IInv
  <1> SUFFICES ASSUME Init
               PROVE  IInv
    OBVIOUS
  <1> USE ConstantsAssumption DEF Init
  <1>1. Pickers \subseteq Actors /\ Openers \subseteq Actors
    BY DEF Actors
  <1>2. 0 \in 0 .. MaxRevision /\ 0 \in 0 .. MaxAttempts
    OBVIOUS
  <1>3. /\ revision \in 0 .. MaxRevision /\ ready \in BOOLEAN
        /\ observed \in 0 .. MaxRevision /\ quarantine \in 0 .. MaxRevision
        /\ storeMu \in Actors \cup {Nobody} /\ refreshMu \in Actors \cup {Nobody}
        /\ found \subseteq Pickers
    BY <1>2
  <1>4. /\ pc \in [Actors -> Labels]
        /\ rev \in [Actors -> 0 .. MaxRevision] /\ loaded \in [Actors -> 0 .. MaxRevision]
        /\ attempt \in [Actors -> 0 .. MaxAttempts]
    BY <1>2 DEF Labels
  <1>5. view \in [Pickers -> 0 .. MaxRevision] /\ need \in [Pickers -> 0 .. MaxRevision]
    BY <1>2
  <1>6. TypeOK
    BY <1>3, <1>4, <1>5 DEF TypeOK
  <1>7. LocksHeld
    BY <1>1 DEF LocksHeld, Opening, Refreshing
  <1>8. RefreshInOrder /\ PicksCovered
    BY DEF RefreshInOrder, PicksCovered
  <1>9. QED
    BY <1>6, <1>7, <1>8 DEF IInv

\* Every step of the protocol keeps the types.
LEMMA TypeStep == IInv /\ [Next]_vars => TypeOK'
  <1> SUFFICES ASSUME IInv, [Next]_vars
               PROVE  TypeOK'
    OBVIOUS
  <1> USE ConstantsAssumption DEF IInv, TypeOK, Labels
  <1>1. Pickers \subseteq Actors
    BY DEF Actors
  <1>2. ASSUME NEW x \in Actors, Return(x)
        PROVE  /\ pc' \in [Actors -> Labels] /\ rev' \in [Actors -> 0 .. MaxRevision]
               /\ loaded' \in [Actors -> 0 .. MaxRevision] /\ attempt' \in [Actors -> 0 .. MaxAttempts]
               /\ view' \in [Pickers -> 0 .. MaxRevision] /\ need' \in [Pickers -> 0 .. MaxRevision]
               /\ found' \subseteq Pickers
    BY <1>2 DEF Return, Goto, Forget
  <1>3. ASSUME NEW p \in Pickers, Pick(p)
        PROVE  TypeOK'
    <2>1. CASE EndPick(p)
      BY <1>1, <1>2, <2>1 DEF EndPick, process, locks
    <2>2. CASE ~EndPick(p)
      BY <1>1, <1>3, <2>2 DEF Pick, ReadRevisions, Reconcile, Reread, Prepare, Choose, Goto, Forget,
         process, locks, local, pick
    <2>3. QED
      BY <2>1, <2>2
  <1>4. ASSUME NEW x \in Actors, BeginOpen(x) \/ Refresh(x)
        PROVE  TypeOK'
    <2>1. CASE Fail(x)
      BY <1>2, <2>1 DEF Fail, process
    <2>2. CASE ReadAfter(x)
      BY <2>2 DEF ReadAfter, Unlock, Resume, Goto, Forget, pick
    <2>3. CASE ~Fail(x) /\ ~ReadAfter(x)
      BY <1>4, <2>3 DEF BeginOpen, Refresh, LockRefresh, ReadBefore, LoadMarkers, PublishMarkers,
         Retry, Goto, process, locks, local, pick
    <2>4. QED
      BY <2>1, <2>2, <2>3
  <1>5. CASE CommitMarker
    BY <1>5 DEF CommitMarker, process, locks, local, pick
  <1>6. CASE Restart
    <2>1. 0 \in 0 .. MaxRevision /\ 0 \in 0 .. MaxAttempts
      OBVIOUS
    <2>2. /\ pc' \in [Actors -> Labels]
          /\ rev' \in [Actors -> 0 .. MaxRevision] /\ loaded' \in [Actors -> 0 .. MaxRevision]
          /\ attempt' \in [Actors -> 0 .. MaxAttempts]
      BY <1>6, <2>1 DEF Restart
    <2>3. view' \in [Pickers -> 0 .. MaxRevision] /\ need' \in [Pickers -> 0 .. MaxRevision]
      BY <1>6, <2>1 DEF Restart
    <2>4. QED
      BY <1>6, <2>1, <2>2, <2>3 DEF Restart
  <1>7. CASE UNCHANGED vars
    BY <1>7 DEF vars, process, locks, local, pick
  <1>8. QED
    BY <1>3, <1>4, <1>5, <1>6, <1>7 DEF Next

\* Every step keeps the locks with those inside their sections.
LEMMA LocksStep == IInv /\ [Next]_vars => LocksHeld'
  <1> SUFFICES ASSUME IInv, [Next]_vars
               PROVE  LocksHeld'
    OBVIOUS
  <1> USE ConstantsAssumption DEF IInv, TypeOK, LocksHeld, Refreshing, Opening
  <1>1. Pickers \subseteq Actors /\ Openers \subseteq Actors
    BY DEF Actors
  <1>2. ASSUME NEW p \in Pickers, Pick(p)
        PROVE  LocksHeld'
    BY <1>1, <1>2 DEF Pick, ReadRevisions, Reconcile, Reread, Prepare, Choose, EndPick, Return,
       Goto, process, locks
  <1>3. ASSUME NEW x \in Actors, BeginOpen(x) \/ LockRefresh(x)
        PROVE  LocksHeld'
    BY <1>1, <1>3 DEF BeginOpen, LockRefresh, Goto, process
  <1>4. ASSUME NEW x \in Actors,
               ReadBefore(x) \/ LoadMarkers(x) \/ PublishMarkers(x) \/ Retry(x)
        PROVE  LocksHeld'
    BY <1>1, <1>4 DEF ReadBefore, LoadMarkers, PublishMarkers, Retry, Goto, process, locks
  <1>5. ASSUME NEW x \in Actors, ReadAfter(x)
        PROVE  LocksHeld'
    BY <1>1, <1>5 DEF ReadAfter, Unlock, Resume, Goto
  <1>6. ASSUME NEW x \in Actors, Fail(x)
        PROVE  LocksHeld'
    BY <1>1, <1>6 DEF Fail, Return, Goto, process
  <1>7. CASE CommitMarker
    BY <1>7 DEF CommitMarker, process, locks
  <1>8. CASE Restart
    BY <1>1, <1>8 DEF Restart
  <1>9. CASE UNCHANGED vars
    BY <1>9 DEF vars, process, locks
  <1>10. QED
    BY <1>2, <1>3, <1>4, <1>5, <1>6, <1>7, <1>8, <1>9 DEF Next, Refresh

\* Every step keeps the refreshes, and the snapshot they publish, in order.
LEMMA OrderStep == IInv /\ [Next]_vars => RefreshInOrder'
  <1> SUFFICES ASSUME IInv, [Next]_vars
               PROVE  RefreshInOrder'
    OBVIOUS
  <1> USE ConstantsAssumption DEF IInv, TypeOK, RefreshInOrder
  <1>1. Pickers \subseteq Actors /\ Openers \subseteq Actors
    BY DEF Actors
  <1>2. \A x, y \in Actors : pc[x] \in Refreshing /\ pc[y] \in Refreshing => x = y
    BY DEF LocksHeld
  <1>3. ASSUME NEW p \in Pickers, Pick(p)
        PROVE  RefreshInOrder'
    BY <1>1, <1>3 DEF Pick, ReadRevisions, Reconcile, Reread, Prepare, Choose, EndPick, Return,
       Goto, Forget, process, locks, local
  <1>4. ASSUME NEW x \in Actors,
               BeginOpen(x) \/ LockRefresh(x) \/ ReadBefore(x) \/ LoadMarkers(x) \/ Retry(x)
        PROVE  RefreshInOrder'
    BY <1>4 DEF BeginOpen, LockRefresh, ReadBefore, LoadMarkers, Retry, Goto, process, local
  <1>5. ASSUME NEW x \in Actors, PublishMarkers(x)
        PROVE  RefreshInOrder'
    BY <1>2, <1>5 DEF PublishMarkers, Goto, local, Refreshing
  <1>6. ASSUME NEW x \in Actors, ReadAfter(x)
        PROVE  RefreshInOrder'
    BY <1>6 DEF ReadAfter, Resume, Goto, Forget
  <1>7. ASSUME NEW x \in Actors, Fail(x)
        PROVE  RefreshInOrder'
    BY <1>7 DEF Fail, Return, Goto, Forget, process
  <1>8. CASE CommitMarker
    BY <1>8 DEF CommitMarker, process, local
  <1>9. CASE Restart
    BY <1>9 DEF Restart
  <1>10. CASE UNCHANGED vars
    BY <1>10 DEF vars, process, local
  <1>11. QED
    BY <1>3, <1>4, <1>5, <1>6, <1>7, <1>8, <1>9, <1>10 DEF Next, Refresh

\* Every step keeps what the picks go on with ahead of what they need.
LEMMA PicksStep == IInv /\ [Next]_vars => PicksCovered'
  <1> SUFFICES ASSUME IInv, [Next]_vars
               PROVE  PicksCovered'
    OBVIOUS
  <1> USE ConstantsAssumption DEF IInv, TypeOK, PicksCovered
  <1>1. Pickers \subseteq Actors /\ Openers \subseteq Actors
    BY DEF Actors
  <1>2. ready => observed <= quarantine /\ quarantine <= revision
    BY DEF RefreshInOrder
  <1>3. ASSUME NEW p \in Pickers, Pick(p)
        PROVE  PicksCovered'
    BY <1>1, <1>2, <1>3 DEF Pick, ReadRevisions, Reconcile, Reread, Prepare, Choose, EndPick,
       Return, Goto, Forget, process, locks, local, pick
  <1>4. ASSUME NEW x \in Actors,
               BeginOpen(x) \/ LockRefresh(x) \/ ReadBefore(x) \/ LoadMarkers(x) \/ Retry(x)
        PROVE  PicksCovered'
    BY <1>1, <1>4 DEF BeginOpen, LockRefresh, ReadBefore, LoadMarkers, Retry, Goto, process, local,
       pick
  <1>5. ASSUME NEW x \in Actors, PublishMarkers(x)
        PROVE  PicksCovered'
    <2>1. quarantine <= loaded[x]
      BY <1>5 DEF PublishMarkers, RefreshInOrder
    <2>2. QED
      BY <1>1, <1>5, <2>1 DEF PublishMarkers, Goto, local, pick
  <1>6. ASSUME NEW x \in Actors, ReadAfter(x)
        PROVE  PicksCovered'
    <2>1. revision <= quarantine
      BY <1>6 DEF ReadAfter, RefreshInOrder
    <2>2. x \in found => Resume(x) = "prepare"
      BY <1>1 DEF Resume, LocksHeld
    <2>3. QED
      BY <1>1, <1>6, <2>1, <2>2 DEF ReadAfter, Goto, Forget, pick
  <1>7. ASSUME NEW x \in Actors, Fail(x)
        PROVE  PicksCovered'
    BY <1>1, <1>7 DEF Fail, Return, Goto, Forget, process
  <1>8. CASE CommitMarker
    BY <1>1, <1>8 DEF CommitMarker, process, local, pick
  <1>9. CASE Restart
    BY <1>9 DEF Restart
  <1>10. CASE UNCHANGED vars
    BY <1>10 DEF vars, process, local, pick
  <1>11. QED
    BY <1>3, <1>4, <1>5, <1>6, <1>7, <1>8, <1>9, <1>10 DEF Next, Refresh

\* The inductive invariant holds in every reachable state.
LEMMA Invariance == Spec => []IInv
  <1>1. IInv /\ [Next]_vars => IInv'
    BY TypeStep, LocksStep, OrderStep, PicksStep DEF IInv
  <1>2. QED
    BY IInvInit, <1>1, PTL DEF Spec

\* The locals of every goroutine keep their types; no refresh exceeds its attempts
\* (privacySnapshotMaxAttempts).
THEOREM TypesHold == Spec => []TypeOK
  <1>1. IInv => TypeOK
    BY DEF IInv
  <1>2. QED
    BY <1>1, Invariance, PTL

\* A process never marks a privacy revision as observed that its snapshot lacks
\* (stabilizePrivacySnapshot, observePrivacy, reset).
THEOREM ObservedLoaded == Spec => []ObservedIsLoaded
  <1>1. IInv => ObservedIsLoaded
    BY DEF IInv, TypeOK, RefreshInOrder, ObservedIsLoaded
  <1>2. QED
    BY <1>1, Invariance, PTL

\* Every pick that finds the store open filters with every marker committed before
\* it began (reconcilePersistentSchedulerRevisions, prepareSchedulerRequest).
THEOREM OpenPicksCurrent == Spec => []OpenPicksAreCurrent
  <1>1. IInv => OpenPicksAreCurrent
    BY DEF IInv, TypeOK, PicksCovered, OpenPicksAreCurrent
  <1>2. QED
    BY <1>1, Invariance, PTL

\* No concurrent refresh replaces the snapshot by an older one (privacyRefreshMu).
THEOREM QuarantineMonotone == Spec => QuarantineMovesForward
  <1>1. IInv /\ [Next]_vars => [ready /\ ready' => quarantine' >= quarantine]_vars
    <2> SUFFICES ASSUME IInv, Next, ready, ready'
                 PROVE  quarantine' >= quarantine
      OBVIOUS
    <2>1. quarantine \in Int
      BY DEF IInv, TypeOK
    <2>2. ASSUME NEW x \in Actors, PublishMarkers(x)
          PROVE  quarantine' >= quarantine
      BY <2>1, <2>2 DEF PublishMarkers, IInv, RefreshInOrder, TypeOK
    <2>3. CASE ~\E x \in Actors : PublishMarkers(x)
      BY <2>1, <2>3 DEF Next, Pick, ReadRevisions, Reconcile, Reread, Prepare, Choose, EndPick,
         BeginOpen, Refresh, LockRefresh, ReadBefore, LoadMarkers, ReadAfter, Retry, Fail,
         CommitMarker, Restart, process
    <2>4. QED
      BY <2>2, <2>3
  <1>2. QED
    BY <1>1, Invariance, PTL DEF Spec, QuarantineMovesForward

\* Every step of the quarantine protocol is one of the view, or invisible in it.
LEMMA StepIsViewStep ==
  IInv /\ [Next]_vars
    => [View!Next]_<< revision, [p \in Pickers |-> Floor(p)], [p \in Pickers |-> Seen(p)] >>
  <1> DEFINE floor == [p \in Pickers |-> Floor(p)]
             seen == [p \in Pickers |-> Seen(p)]
             Unseen == UNCHANGED << revision, floor, seen >>
  <1> SUFFICES ASSUME IInv, [Next]_vars
               PROVE  [View!Next]_<< revision, floor, seen >>
    OBVIOUS
  <1> USE ConstantsAssumption
  <1>1. /\ revision \in Int /\ quarantine \in Int /\ found \subseteq Pickers
        /\ Pickers \subseteq Actors /\ pc \in [Actors -> Labels]
        /\ view \in [Pickers -> Int] /\ need \in [Pickers -> Int]
    BY DEF IInv, TypeOK, Actors
  \* The pick is at none of the places where it is served or holds a view.
  <1>2. ASSUME UNCHANGED << revision, found, need, view >>, NEW x \in Actors, NEW label,
               Goto(x, label), pc[x] \notin {"prepared", "chosen"} \/ x \notin found,
               label \notin {"prepared", "chosen"} \/ x \notin found
        PROVE  Unseen
    <2>1. \A p \in Pickers : Floor(p)' = Floor(p) /\ Seen(p)' = Seen(p)
      BY <1>1, <1>2 DEF Floor, Seen, Goto
    <2> QED
      BY <1>2, <2>1
  <1>3. ASSUME NEW S \in SUBSET Pickers, UNCHANGED revision,
               \A p \in Pickers : Floor(p)' = IF p \in S THEN -1 ELSE Floor(p),
               \A p \in Pickers : Seen(p)' = IF p \in S THEN -1 ELSE Seen(p)
        PROVE  View!Next
    <2>1. View!Leave(S)
      BY <1>3 DEF View!Leave, View!NoVersion
    <2> QED
      BY <2>1 DEF View!Next
  <1>4. ASSUME NEW x \in Actors, Return(x), UNCHANGED revision
        PROVE  View!Next
    <2> DEFINE S == {x} \cap Pickers
    <2>1. S \in SUBSET Pickers /\ found' = found \ {x}
      BY <1>4 DEF Return
    <2>2. ASSUME NEW p \in Pickers
          PROVE  /\ Floor(p)' = IF p \in S THEN -1 ELSE Floor(p)
                 /\ Seen(p)' = IF p \in S THEN -1 ELSE Seen(p)
      <3>1. CASE p = x
        BY <2>1, <3>1 DEF Floor, Seen
      <3>2. CASE p # x
        <4>1. pc'[p] = pc[p] /\ view'[p] = view[p] /\ need'[p] = need[p] /\ p \in found' <=> p \in found
          BY <1>1, <1>4, <3>2 DEF Return, Goto
        <4> QED
          BY <1>4, <3>2, <4>1 DEF Floor, Seen, Return
      <3> QED
        BY <3>1, <3>2
    <2> HIDE DEF S
    <2> QED
      BY <1>3, <1>4, <2>1, <2>2
  <1>5. ASSUME NEW p \in Pickers, ReadRevisions(p)
        PROVE  Unseen \/ View!Next
    <2>1. pc[p] = "idle" /\ revision' = revision
          /\ need' = [need EXCEPT ![p] = revision] /\ view' = view
      BY <1>5 DEF ReadRevisions, process, locks
    <2>2. CASE ready
      <3>1. found' = found \cup {p} /\ Goto(p, "reconcile")
        BY <1>5, <2>2 DEF ReadRevisions
      <3>2. \A q \in Pickers : /\ Floor(q)' = IF q = p THEN revision ELSE Floor(q)
                               /\ Seen(q)' = Seen(q)
        BY <1>1, <2>1, <3>1 DEF Floor, Seen, Goto
      <3>3. Seen(p) = -1
        BY <2>1 DEF Seen
      <3>4. View!Begin(p)
        BY <2>1, <3>2, <3>3 DEF View!Begin, View!NoVersion
      <3> QED
        BY <3>4 DEF View!Next
    <2>3. CASE ~ready
      <3>1. found' = found /\ Goto(p, "prepare") /\ p \notin found
        BY <1>5, <2>3 DEF ReadRevisions, IInv, PicksCovered
      <3>2. \A q \in Pickers : Floor(q)' = Floor(q) /\ Seen(q)' = Seen(q)
        BY <1>1, <2>1, <3>1 DEF Floor, Seen, Goto
      <3> QED
        BY <2>1, <3>2
    <2> QED
      BY <2>2, <2>3
  <1>6. ASSUME NEW p \in Pickers, Prepare(p)
        PROVE  Unseen \/ View!Next
    <2>1. /\ pc[p] = "prepare" /\ view' = [view EXCEPT ![p] = quarantine]
          /\ Goto(p, "prepared") /\ UNCHANGED << revision, need, found >>
      BY <1>6 DEF Prepare
    <2>2. CASE p \in found
      <3>1. need[p] <= quarantine /\ quarantine <= revision
        BY <2>1, <2>2 DEF IInv, PicksCovered, RefreshInOrder
      <3>2. \A q \in Pickers : /\ Floor(q)' = Floor(q)
                               /\ Seen(q)' = IF q = p THEN quarantine ELSE Seen(q)
        BY <1>1, <2>1, <2>2 DEF Floor, Seen, Goto
      <3>3. Floor(p) = need[p] /\ Floor(p) # -1 /\ Seen(p) = -1
        BY <2>1, <2>2 DEF Floor, Seen, IInv, TypeOK
      <3>4. quarantine \in floor[p] .. revision
        BY <1>1, <3>1, <3>3
      <3>5. View!Serve(p)
        BY <2>1, <3>2, <3>3, <3>4 DEF View!Serve, View!NoVersion
      <3> QED
        BY <3>5 DEF View!Next
    <2>3. CASE p \notin found
      <3>1. \A q \in Pickers : Floor(q)' = Floor(q) /\ Seen(q)' = Seen(q)
        BY <1>1, <2>1, <2>3 DEF Floor, Seen, Goto
      <3> QED
        BY <2>1, <3>1
    <2> QED
      BY <2>2, <2>3
  <1>7. ASSUME NEW p \in Pickers, Choose(p)
        PROVE  Unseen
    <2>1. \A q \in Pickers : Floor(q)' = Floor(q) /\ Seen(q)' = Seen(q)
      BY <1>1, <1>7 DEF Choose, Floor, Seen, Goto, pick
    <2> QED
      BY <1>7, <2>1 DEF Choose
  <1>8. ASSUME NEW p \in Pickers, Reconcile(p) \/ Reread(p)
        PROVE  Unseen
    <2>1. /\ pc[p] \in {"reconcile", "reread"} /\ UNCHANGED << revision, found, need, view >>
          /\ Goto(p, "lock") \/ Goto(p, "prepare") \/ Goto(p, "before")
      BY <1>8 DEF Reconcile, Reread, pick
    <2> HIDE DEF Unseen
    <2> QED
      BY <1>1, <1>2, <2>1
  \* An opening, or a refresh: a pick that found the store open does not open it.
  <1>9. ASSUME NEW x \in Actors, BeginOpen(x)
        PROVE  Unseen
    <2>1. x \notin found /\ Goto(x, "lock") /\ UNCHANGED << revision, found, need, view >>
      BY <1>9 DEF BeginOpen, pick, IInv, PicksCovered
    <2> HIDE DEF Unseen
    <2> QED
      BY <1>2, <2>1
  <1>10. ASSUME NEW x \in Actors,
                LockRefresh(x) \/ ReadBefore(x) \/ LoadMarkers(x) \/ PublishMarkers(x) \/ Retry(x)
         PROVE  Unseen
    <2>1. /\ pc[x] \in {"lock", "before", "load", "publish", "after"}
          /\ UNCHANGED << revision, found, need, view >>
          /\ \/ Goto(x, "before") \/ Goto(x, "reread") \/ Goto(x, "load")
             \/ Goto(x, "publish") \/ Goto(x, "after")
      BY <1>10 DEF LockRefresh, ReadBefore, LoadMarkers, PublishMarkers, Retry, pick
    <2> HIDE DEF Unseen
    <2> QED
      BY <1>2, <2>1
  <1>11. ASSUME NEW x \in Actors, ReadAfter(x)
         PROVE  Unseen
    <2>1. pc[x] = "after" /\ Goto(x, Resume(x)) /\ UNCHANGED << revision, found, need, view >>
      BY <1>11 DEF ReadAfter, pick
    <2>2. Resume(x) \in {"prepared", "chosen"} => x \notin found
      BY DEF Resume, IInv, LocksHeld, PicksCovered
    <2> HIDE DEF Unseen
    <2> QED
      BY <1>2, <2>1, <2>2
  <1>12. ASSUME CommitMarker
         PROVE  View!Next
    <2>1. /\ revision' = revision + 1
          /\ \A p \in Pickers : Floor(p)' = Floor(p) /\ Seen(p)' = Seen(p)
      BY <1>12 DEF CommitMarker, Floor, Seen, pick
    <2>2. View!Change
      BY <2>1 DEF View!Change
    <2> QED
      BY <2>2 DEF View!Next
  <1>13. ASSUME Restart
         PROVE  View!Next
    <2>1. revision' = revision /\ \A p \in Pickers : Floor(p)' = -1 /\ Seen(p)' = -1
      BY <1>13 DEF Restart, Floor, Seen
    <2>2. Pickers \in SUBSET Pickers
      OBVIOUS
    <2> QED
      BY <1>3, <2>1, <2>2
  <1>14. ASSUME UNCHANGED vars
         PROVE  Unseen
    <2>1. \A q \in Pickers : Floor(q)' = Floor(q) /\ Seen(q)' = Seen(q)
      BY <1>14 DEF vars, pick, Floor, Seen
    <2> QED
      BY <1>14, <2>1 DEF vars
  <1>15. Unseen \/ View!Next
    <2>1. ASSUME NEW x \in Actors, EndPick(x) \/ Fail(x)
          PROVE  View!Next
      BY <1>4, <2>1 DEF EndPick, Fail
    <2> HIDE DEF Unseen
    <2> QED
      BY <1>1, <1>5, <1>6, <1>7, <1>8, <1>9, <1>10, <1>11, <1>12, <1>13, <1>14, <2>1
         DEF Next, Pick, Refresh
  <1> QED
    BY <1>15

\* Every pick that finds the store open is served one current view of the markers
\* and keeps it (reconcilePersistentSchedulerRevisions, prepareSchedulerRequest),
\* whoever reloads the quarantine meanwhile.
THEOREM PicksSeeACurrentView == Spec => ImplementsCurrentView
  <1>1. Init => View!Init
    BY DEF Init, Floor, Seen, View!Init, View!NoVersion
  <1>2. QED
    BY <1>1, StepIsViewStep, Invariance, PTL DEF Spec, ImplementsCurrentView, View!Spec

=============================================================================
