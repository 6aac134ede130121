---------------------- MODULE AccountProtectionProofs ----------------------
(***************************************************************************)
(* Proofs about AccountProtection, for every set of processes, picks and   *)
(* accounts, every TTL, deadline, cleanup interval and bound.              *)
(***************************************************************************)
EXTENDS AccountProtection, FiniteSetTheorems, TLAPS

-----------------------------------------------------------------------------
(* Counting                                                                *)

\* A later reader of a smaller table counts no more of an account.
LEMMA LiveShrinks ==
  ASSUME NEW S, NEW T, IsFiniteSet(T), S \subseteq T,
         NEW a, NEW t \in Int, NEW u \in Int, t <= u,
         \A r \in T : r.expires \in Int
  PROVE  /\ IsFiniteSet(LiveOf(S, a, u))
         /\ IsFiniteSet(LiveOf(T, a, t))
         /\ Cardinality(LiveOf(S, a, u)) \in Nat
         /\ Cardinality(LiveOf(T, a, t)) \in Nat
         /\ Cardinality(LiveOf(S, a, u)) <= Cardinality(LiveOf(T, a, t))
  <1>1. LiveOf(S, a, u) \subseteq LiveOf(T, a, t)
    BY DEF LiveOf
  <1>2. LiveOf(T, a, t) \subseteq T
    BY DEF LiveOf
  <1>3. IsFiniteSet(LiveOf(T, a, t))
    BY <1>2, FS_Subset
  <1>4. /\ IsFiniteSet(LiveOf(S, a, u))
        /\ Cardinality(LiveOf(S, a, u)) <= Cardinality(LiveOf(T, a, t))
    BY <1>1, <1>3, FS_Subset
  <1>5. /\ Cardinality(LiveOf(S, a, u)) \in Nat
        /\ Cardinality(LiveOf(T, a, t)) \in Nat
    BY <1>3, <1>4, FS_CardinalityType
  <1>6. QED
    BY <1>3, <1>4, <1>5

\* What a pick counts for a candidate includes all of the candidate's own rows.
LEMMA InFlightCoversOwn ==
  ASSUME NEW T, IsFiniteSet(T), NEW a \in Accounts, NEW C, NEW t \in Int
  PROVE  /\ InFlight(T, a, C, t) \in Nat
         /\ Cardinality(LiveOf(T, a, t)) \in Nat
         /\ Cardinality(LiveOf(T, a, t)) <= InFlight(T, a, C, t)
  <1> DEFINE counted == {r \in T : r.account \in Counted(a, C) /\ r.expires > t}
  <1>1. counted \subseteq T /\ LiveOf(T, a, t) \subseteq counted
    BY DEF LiveOf, Counted
  <1>2. IsFiniteSet(counted)
    BY <1>1, FS_Subset
  <1>3. /\ IsFiniteSet(LiveOf(T, a, t))
        /\ Cardinality(LiveOf(T, a, t)) <= Cardinality(counted)
    BY <1>1, <1>2, FS_Subset
  <1>4. Cardinality(counted) \in Nat /\ Cardinality(LiveOf(T, a, t)) \in Nat
    BY <1>2, <1>3, FS_CardinalityType
  <1>5. QED
    BY <1>3, <1>4 DEF InFlight

\* A row inserted for account a adds at most one to a and nothing to the others.
LEMMA LiveAfterInsert ==
  ASSUME NEW T, IsFiniteSet(T), NEW r, NEW a, NEW t \in Int
  PROVE  /\ IsFiniteSet(T \cup {r})
         /\ r.account = a => Cardinality(LiveOf(T \cup {r}, a, t))
                               <= Cardinality(LiveOf(T, a, t)) + 1
         /\ r.account # a => LiveOf(T \cup {r}, a, t) = LiveOf(T, a, t)
  <1>1. IsFiniteSet(T \cup {r})
    BY FS_AddElement
  <1>2. ASSUME r.account = a
        PROVE  Cardinality(LiveOf(T \cup {r}, a, t)) <= Cardinality(LiveOf(T, a, t)) + 1
    <2> DEFINE old == LiveOf(T, a, t)
    <2>1. old \subseteq T
      BY DEF LiveOf
    <2>2. IsFiniteSet(old)
      BY <2>1, FS_Subset
    <2>3. Cardinality(old) \in Nat
      BY <2>2, FS_CardinalityType
    <2>4. LiveOf(T \cup {r}, a, t) \subseteq old \cup {r}
      BY DEF LiveOf
    <2>5. /\ IsFiniteSet(old \cup {r})
          /\ Cardinality(old \cup {r}) = IF r \in old THEN Cardinality(old)
                                                      ELSE Cardinality(old) + 1
      BY <2>2, FS_AddElement
    <2>6. Cardinality(LiveOf(T \cup {r}, a, t)) <= Cardinality(old \cup {r})
      BY <2>4, <2>5, FS_Subset
    <2>7. Cardinality(old \cup {r}) \in Nat /\ Cardinality(LiveOf(T \cup {r}, a, t)) \in Nat
      BY <2>4, <2>5, FS_Subset, FS_CardinalityType
    <2>8. QED
      BY <2>3, <2>5, <2>6, <2>7
  <1>3. ASSUME r.account # a
        PROVE  LiveOf(T \cup {r}, a, t) = LiveOf(T, a, t)
    BY <1>3 DEF LiveOf
  <1>4. QED
    BY <1>1, <1>2, <1>3

-----------------------------------------------------------------------------
(* Types and locks                                                         *)

(***************************************************************************)
(* What an open transaction carries: its table is finite, it has an id for *)
(* the row it inserted, the pick's time is not in the future.              *)
(***************************************************************************)
DraftOK ==
  /\ IsFiniteSet(rows)
  /\ IsFiniteSet(draft)
  /\ \A p \in Pickers : now[p] <= clock
  /\ \A p \in Pickers : pc[p] = "decided" /\ chosen # None => nextId <= MaxReservations

\* The empty store and idle picks satisfy the types and both lock invariants.
LEMMA InitTypes == Init => TypeOK /\ LocksHeldByPick /\ DraftOK
  BY ConstantsAssumption, FS_EmptySet
     DEF Init, TypeOK, LocksHeldByPick, DraftOK, Time

\* The chosen account is one of the candidates that have room.
LEMMA ChoiceIsOpen ==
  ASSUME NEW open, NEW demoted, NEW a \in Choices(open, demoted)
  PROVE  a \in open
  BY DEF Choices, TopPriority

\* The part of a step that ends a pick.
LEMMA EndPickTypes ==
  ASSUME TypeOK, NEW p \in Pickers, EndPick(p)
  PROVE  /\ pc' \in [Pickers -> {"idle", "waiting", "locked", "writing", "decided"}]
         /\ now' \in [Pickers -> 0 .. Horizon]
         /\ pickMu' \in [Processes -> Pickers \cup {None}]
         /\ writer' \in Pickers \cup {None}
         /\ draft' \subseteq Reservation
         /\ chosen' \in Accounts \cup {None}
         /\ refused' \subseteq Accounts
  <1>1. /\ pc' \in [Pickers -> {"idle", "waiting", "locked", "writing", "decided"}]
        /\ now' \in [Pickers -> 0 .. Horizon]
    BY ConstantsAssumption DEF EndPick, TypeOK
  <1>2. pickMu' \in [Processes -> Pickers \cup {None}]
    <2>1. pickMu[ProcessOf[p]] \in Pickers \cup {None}
      BY ConstantsAssumption DEF TypeOK
    <2>2. QED
      BY <2>1, ConstantsAssumption DEF EndPick, TypeOK
  <1>3. writer' \in Pickers \cup {None}
    BY DEF EndPick, TypeOK
  <1>4. CASE writer = p
    BY <1>1, <1>2, <1>3, <1>4 DEF EndPick
  <1>5. CASE writer # p
    BY <1>1, <1>2, <1>3, <1>5 DEF EndPick, deciding, TypeOK
  <1>6. QED
    BY <1>4, <1>5

\* Every step keeps the types; the draft gives a granted row an id within bounds.
LEMMA TypeStep ==
  TypeOK /\ DraftOK /\ [Next]_vars => TypeOK'
  <1> SUFFICES ASSUME TypeOK, DraftOK, [Next]_vars
               PROVE  TypeOK'
    OBVIOUS
  <1> USE ConstantsAssumption
  <1>1. ASSUME NEW p \in Pickers, StartPick(p)
        PROVE  TypeOK'
    BY <1>1 DEF StartPick, TypeOK, deciding, Time
  <1>2. ASSUME NEW p \in Pickers, TakePickMu(p)
        PROVE  TypeOK'
    BY <1>2 DEF TakePickMu, TypeOK, deciding
  <1>3. ASSUME NEW p \in Pickers, BeginImmediate(p)
        PROVE  TypeOK'
    BY <1>3 DEF BeginImmediate, TypeOK, deciding
  <1>4. ASSUME NEW p \in Pickers, NEW C \in (SUBSET Accounts) \ {{}},
               NEW lim \in LimitChoices, NEW demoted \in SUBSET Accounts,
               Decide(p, C, lim, demoted)
        PROVE  TypeOK'
    <2> DEFINE table == Cleaned(p)
               open == {a \in C : HasRoom(table, a, C, now[p], lim[a])}
    <2>1. table \subseteq Reservation
      BY DEF TypeOK, Cleaned, Unexpired
    <2>3. refused' \subseteq Accounts
      BY <1>4 DEF Decide
    <2>4. chosen' \in Accounts \cup {None} /\ draft' \subseteq Reservation
      <3>1. CASE chosen' = None /\ draft' = table
        BY <3>1, <2>1
      <3>2. ASSUME NEW a \in Choices(open, demoted),
                   nextId <= MaxReservations, chosen' = a,
                   draft' = table \cup {NewRow(p, a)}
            PROVE  chosen' \in Accounts \cup {None} /\ draft' \subseteq Reservation
        <4>1. a \in Accounts
          BY ChoiceIsOpen
        <4>2. NewRow(p, a) \in Reservation
          BY <4>1, <3>2 DEF NewRow, Reservation, Time, TypeOK
        <4>3. QED
          BY <3>2, <4>1, <4>2, <2>1
      <3>3. QED
        BY <1>4, <3>1, <3>2 DEF Decide
    <2>5. QED
      BY <1>4, <2>3, <2>4 DEF Decide, TypeOK
  <1>5. ASSUME NEW p \in Pickers, NEW dispatched \in BOOLEAN, CommitGrant(p, dispatched)
        PROVE  TypeOK'
    <2>1. nextId <= MaxReservations
      BY <1>5 DEF CommitGrant, CommitRows, DraftOK
    <2>2. requests' \subseteq Request
      BY <1>5, <2>1 DEF CommitGrant, Request, TypeOK, Time
    <2>3. cleanupAt' \in [Processes -> 0 .. Horizon \cup {None}]
      BY <1>5 DEF CommitGrant, CommitRows, TypeOK
    <2>4. EndPick(p) /\ rows' = draft /\ UNCHANGED clock /\ nextId' = nextId + 1
      BY <1>5 DEF CommitGrant, CommitRows
    <2>5. QED
      BY <2>1, <2>2, <2>3, <2>4, EndPickTypes DEF TypeOK
  <1>6. ASSUME NEW p \in Pickers, CommitReject(p)
        PROVE  TypeOK'
    <2>1. cleanupAt' \in [Processes -> 0 .. Horizon \cup {None}]
      BY <1>6 DEF CommitReject, CommitRows, TypeOK
    <2>2. EndPick(p) /\ rows' = draft /\ UNCHANGED << clock, nextId, requests >>
      BY <1>6 DEF CommitReject, CommitRows
    <2>3. QED
      BY <2>1, <2>2, EndPickTypes DEF TypeOK
  <1>7. ASSUME NEW p \in Pickers, Abandon(p)
        PROVE  TypeOK'
    BY <1>7, EndPickTypes DEF Abandon, TypeOK
  <1>8. ASSUME NEW q \in requests, NEW matches, UsageCallback(q, matches)
        PROVE  TypeOK'
    BY <1>8 DEF UsageCallback, Release, TypeOK, picking, deciding
  <1>9. ASSUME NEW q \in requests, CallbackLost(q)
        PROVE  TypeOK'
    BY <1>9 DEF CallbackLost, TypeOK, picking, deciding
  <1>10. ASSUME NEW matches, StrayCallback(matches)
         PROVE  TypeOK'
    BY <1>10 DEF StrayCallback, Release, TypeOK, picking, deciding
  <1>11. ASSUME NEW t \in Time, SummaryCleanup(t)
         PROVE  TypeOK'
    BY <1>11 DEF SummaryCleanup, Unexpired, TypeOK, picking, deciding
  <1>12. CASE Tick
    BY <1>12 DEF Tick, TypeOK, Time, picking, deciding
  <1>13. ASSUME NEW m \in Processes, Crash(m)
         PROVE  TypeOK'
    BY <1>13 DEF Crash, TypeOK, deciding
  <1>14. CASE UNCHANGED vars
    BY <1>14 DEF vars, TypeOK
  <1>15. QED
    BY <1>1, <1>2, <1>3, <1>4, <1>5, <1>6, <1>7, <1>8, <1>9, <1>10, <1>11, <1>12,
       <1>13, <1>14 DEF Next, Pick, PickFails, PickTimesOut, RequestEnds

\* The common way out of a pick gives back what it held, and nothing else.
LEMMA EndPickLocks ==
  ASSUME TypeOK, LocksHeldByPick, NEW p \in Pickers, EndPick(p)
  PROVE  LocksHeldByPick'
  <1> SUFFICES ASSUME NEW q \in Pickers
               PROVE  /\ pickMu'[ProcessOf[q]] = q
                           <=> pc'[q] \in {"locked", "writing", "decided"}
                      /\ writer' = q <=> pc'[q] \in {"writing", "decided"}
    BY DEF LocksHeldByPick
  <1>1. None # q /\ None # p /\ ProcessOf[p] \in Processes /\ ProcessOf[q] \in Processes
    BY ConstantsAssumption
  <1>2. CASE q = p
    BY <1>1, <1>2 DEF EndPick, TypeOK
  <1>3. CASE q # p
    <2>1. pc'[q] = pc[q]
      BY <1>3 DEF EndPick, TypeOK
    <2>2. pickMu'[ProcessOf[q]] = q <=> pickMu[ProcessOf[q]] = q
      BY <1>1, <1>3 DEF EndPick, TypeOK
    <2>3. writer' = q <=> writer = q
      BY <1>1, <1>3 DEF EndPick
    <2>4. QED
      BY <2>1, <2>2, <2>3 DEF LocksHeldByPick
  <1>4. QED
    BY <1>2, <1>3

\* Every step keeps the locks in the hands of the picks inside their sections.
LEMMA LocksStep ==
  TypeOK /\ LocksHeldByPick /\ [Next]_vars => LocksHeldByPick'
  <1> SUFFICES ASSUME TypeOK, LocksHeldByPick, [Next]_vars
               PROVE  LocksHeldByPick'
    OBVIOUS
  <1> USE ConstantsAssumption
  <1>1. ASSUME NEW p \in Pickers, StartPick(p)
        PROVE  LocksHeldByPick'
    BY <1>1 DEF StartPick, TypeOK, LocksHeldByPick
  <1>2. ASSUME NEW p \in Pickers, TakePickMu(p)
        PROVE  LocksHeldByPick'
    BY <1>2 DEF TakePickMu, TypeOK, LocksHeldByPick
  <1>3. ASSUME NEW p \in Pickers, BeginImmediate(p)
        PROVE  LocksHeldByPick'
    BY <1>3 DEF BeginImmediate, TypeOK, LocksHeldByPick
  <1>4. ASSUME NEW p \in Pickers, NEW C, NEW lim, NEW demoted, Decide(p, C, lim, demoted)
        PROVE  LocksHeldByPick'
    <2>1. /\ pc[p] = "writing" /\ pc' = [pc EXCEPT ![p] = "decided"]
          /\ UNCHANGED << writer, pickMu >>
      BY <1>4 DEF Decide
    <2>2. QED
      BY <2>1 DEF TypeOK, LocksHeldByPick
  <1>5. ASSUME NEW p \in Pickers, EndPick(p)
        PROVE  LocksHeldByPick'
    BY <1>5, EndPickLocks
  <1>6. ASSUME UNCHANGED << pickMu, pc, writer >>
        PROVE  LocksHeldByPick'
    BY <1>6 DEF LocksHeldByPick
  <1>7. ASSUME NEW m \in Processes, Crash(m)
        PROVE  LocksHeldByPick'
    <2> SUFFICES ASSUME NEW q \in Pickers
                 PROVE  /\ pickMu'[ProcessOf[q]] = q
                             <=> pc'[q] \in {"locked", "writing", "decided"}
                        /\ writer' = q <=> pc'[q] \in {"writing", "decided"}
      BY DEF LocksHeldByPick
    <2>1. CASE ProcessOf[q] = m
      BY <1>7, <2>1 DEF Crash, TypeOK
    <2>2. CASE ProcessOf[q] # m
      BY <1>7, <2>2 DEF Crash, TypeOK, LocksHeldByPick
    <2>3. QED
      BY <2>1, <2>2
  <1>8. CASE Next
    BY <1>1, <1>2, <1>3, <1>4, <1>5, <1>6, <1>7, <1>8
       DEF Next, Pick, RequestEnds, CommitGrant, CommitReject, CommitRows, PickFails,
           PickTimesOut, Abandon, UsageCallback, CallbackLost, StrayCallback, Release,
           SummaryCleanup, Tick, picking
  <1>9. CASE UNCHANGED vars
    BY <1>6, <1>9 DEF vars
  <1>10. QED
    BY <1>8, <1>9

\* Every step keeps what an open transaction carries.
LEMMA DraftStep ==
  TypeOK /\ LocksHeldByPick /\ DraftOK /\ [Next]_vars => DraftOK'
  <1> SUFFICES ASSUME TypeOK, LocksHeldByPick, DraftOK, [Next]_vars
               PROVE  DraftOK'
    OBVIOUS
  <1> USE ConstantsAssumption
  <1>1. ASSUME NEW p \in Pickers, StartPick(p)
        PROVE  DraftOK'
    BY <1>1 DEF StartPick, DraftOK, TypeOK, Time, deciding
  <1>2. ASSUME NEW p \in Pickers, TakePickMu(p)
        PROVE  DraftOK'
    BY <1>2 DEF TakePickMu, DraftOK, TypeOK, deciding
  <1>3. ASSUME NEW p \in Pickers, BeginImmediate(p)
        PROVE  DraftOK'
    BY <1>3 DEF BeginImmediate, DraftOK, TypeOK, deciding
  <1>4. ASSUME NEW p \in Pickers, NEW C, NEW lim, NEW demoted, Decide(p, C, lim, demoted)
        PROVE  DraftOK'
    <2>1. Cleaned(p) \subseteq rows
      BY DEF Cleaned, Unexpired
    <2>2. IsFiniteSet(Cleaned(p))
      BY <2>1, FS_Subset DEF DraftOK
    <2>3. IsFiniteSet(draft')
      <3>1. CASE draft' = Cleaned(p)
        BY <3>1, <2>2
      <3>2. ASSUME NEW a, draft' = Cleaned(p) \cup {NewRow(p, a)}
            PROVE  IsFiniteSet(draft')
        BY <3>2, <2>2, FS_AddElement
      <3>3. QED
        BY <1>4, <3>1, <3>2 DEF Decide
    <2>4. chosen' # None => nextId' <= MaxReservations
      BY <1>4 DEF Decide
    <2>5. UNCHANGED << rows, now, clock >>
      BY <1>4 DEF Decide
    <2>6. QED
      BY <2>3, <2>4, <2>5 DEF DraftOK
  <1>5. ASSUME NEW p \in Pickers, EndPick(p), rows' \in {rows, draft}, UNCHANGED clock,
               nextId' = nextId \/ pc[p] = "decided"
        PROVE  DraftOK'
    <2>1. IsFiniteSet(rows') /\ IsFiniteSet(draft')
      BY <1>5, FS_EmptySet DEF DraftOK, EndPick, deciding
    <2>2. \A q \in Pickers : now'[q] <= clock'
      BY <1>5 DEF EndPick, DraftOK, TypeOK, Time
    <2>3. ASSUME NEW q \in Pickers, pc'[q] = "decided", chosen' # None
          PROVE  nextId' <= MaxReservations
      <3>1. q # p /\ pc[q] = "decided"
        BY <1>5, <2>3 DEF EndPick, TypeOK
      <3>2. writer = q
        BY <3>1 DEF LocksHeldByPick
      <3>3. pc[p] # "decided" /\ chosen' = chosen
        BY <1>5, <3>1, <3>2 DEF LocksHeldByPick, EndPick, deciding
      <3>4. QED
        BY <1>5, <2>3, <3>1, <3>3 DEF DraftOK
    <2>4. QED
      BY <2>1, <2>2, <2>3 DEF DraftOK
  <1>6. ASSUME rows' \subseteq rows, clock' >= clock, clock' \in Int,
               UNCHANGED << nextId, pc, now, draft, chosen >>
        PROVE  DraftOK'
    <2>1. IsFiniteSet(rows')
      BY <1>6, FS_Subset DEF DraftOK
    <2>2. \A q \in Pickers : now'[q] <= clock'
      BY <1>6 DEF DraftOK, TypeOK, Time
    <2>3. QED
      BY <1>6, <2>1, <2>2 DEF DraftOK
  <1>7. ASSUME NEW m \in Processes, Crash(m)
        PROVE  DraftOK'
    <2>1. IsFiniteSet(rows') /\ IsFiniteSet(draft')
      BY <1>7, FS_EmptySet DEF DraftOK, Crash, deciding
    <2>2. \A q \in Pickers : now'[q] <= clock'
      BY <1>7 DEF Crash, DraftOK, TypeOK, Time
    <2>3. ASSUME NEW q \in Pickers, pc'[q] = "decided", chosen' # None
          PROVE  nextId' <= MaxReservations
      <3>1. pc[q] = "decided" /\ chosen' = chosen /\ nextId' = nextId
        BY <1>7, <2>3 DEF Crash, TypeOK, deciding
      <3>2. QED
        BY <2>3, <3>1 DEF DraftOK
    <2>4. QED
      BY <2>1, <2>2, <2>3 DEF DraftOK
  <1>8. clock \in Int
    BY DEF TypeOK, Time
  <1>9. ASSUME NEW p \in Pickers, Pick(p)
        PROVE  DraftOK'
    <2>1. CASE \E C \in (SUBSET Accounts) \ {{}}, lim \in LimitChoices,
                   demoted \in SUBSET Accounts : Decide(p, C, lim, demoted)
      BY <1>4, <2>1
    <2>2. ASSUME NEW dispatched, CommitGrant(p, dispatched)
          PROVE  DraftOK'
      BY <1>5, <2>2 DEF CommitGrant, CommitRows
    <2>3. CASE CommitReject(p)
      BY <1>5, <2>3 DEF CommitReject, CommitRows
    <2>4. CASE Abandon(p)
      BY <1>5, <2>4 DEF Abandon
    <2>5. QED
      BY <1>1, <1>2, <1>3, <1>9, <2>1, <2>2, <2>3, <2>4
       DEF Pick, PickFails, PickTimesOut
  <1>10. CASE RequestEnds
    <2>1. ASSUME NEW matches, Release(matches)
          PROVE  DraftOK'
      BY <1>6, <1>8, <2>1 DEF Release, picking, deciding
    <2>2. ASSUME NEW q \in requests, CallbackLost(q)
          PROVE  DraftOK'
      BY <1>6, <1>8, <2>2 DEF CallbackLost, picking, deciding
    <2>3. QED
      BY <1>10, <2>1, <2>2 DEF RequestEnds, UsageCallback
  <1>11. ASSUME NEW matches, StrayCallback(matches)
         PROVE  DraftOK'
    BY <1>6, <1>8, <1>11 DEF StrayCallback, Release, picking, deciding
  <1>12. ASSUME NEW t, SummaryCleanup(t)
         PROVE  DraftOK'
    BY <1>6, <1>8, <1>12 DEF SummaryCleanup, Unexpired, picking, deciding
  <1>13. CASE Tick
    BY <1>6, <1>8, <1>13 DEF Tick, picking, deciding
  <1>14. CASE UNCHANGED vars
    BY <1>6, <1>8, <1>14 DEF vars
  <1>15. QED
    BY <1>7, <1>9, <1>10, <1>11, <1>12, <1>13, <1>14 DEF Next

\* Every reachable state has the shape of the schema and of the picks' locals,
\* for any number of processes, picks and accounts.
THEOREM TypeCorrect == Spec => []TypeOK
  <1>1. TypeOK /\ LocksHeldByPick /\ DraftOK /\ [Next]_vars
          => (TypeOK /\ LocksHeldByPick /\ DraftOK)'
    BY TypeStep, LocksStep, DraftStep
  <1>2. QED
    BY InitTypes, <1>1, PTL DEF Spec

-----------------------------------------------------------------------------
(* The hard limit                                                          *)

(***************************************************************************)
(* The inductive strengthening: the table an open transaction would commit *)
(* is within the limits too.  It stays so while the transaction is open    *)
(* because the committed rows cannot change under it and time only takes   *)
(* rows out of the count.                                                  *)
(***************************************************************************)
DraftWithinLimit ==
  \A p \in Pickers : pc[p] = "decided" =>
    \A a \in Accounts : Cardinality(LiveOf(draft, a, clock)) <= Capacity[a]

SafetyInv == TypeOK /\ LocksHeldByPick /\ DraftOK /\ HardLimit /\ DraftWithinLimit

\* A smaller table read at the same time or later is still within the limits.
LEMMA LimitsShrink ==
  ASSUME ConstantsAssumption, NEW S, NEW T, IsFiniteSet(T), S \subseteq T,
         T \subseteq Reservation,
         NEW t \in Int, NEW u \in Int, t <= u,
         \A a \in Accounts : Cardinality(LiveOf(T, a, t)) <= Capacity[a]
  PROVE  \A a \in Accounts : Cardinality(LiveOf(S, a, u)) <= Capacity[a]
  <1> SUFFICES ASSUME NEW a \in Accounts
               PROVE  Cardinality(LiveOf(S, a, u)) <= Capacity[a]
    OBVIOUS
  <1>1. \A r \in T : r.expires \in Int
    BY DEF Reservation, Time, ConstantsAssumption
  <1>2. /\ Cardinality(LiveOf(S, a, u)) \in Nat
        /\ Cardinality(LiveOf(T, a, t)) \in Nat
        /\ Cardinality(LiveOf(S, a, u)) <= Cardinality(LiveOf(T, a, t))
    BY <1>1, LiveShrinks
  <1>3. Capacity[a] \in Nat /\ Cardinality(LiveOf(T, a, t)) <= Capacity[a]
    BY DEF ConstantsAssumption
  <1>4. QED
    BY <1>2, <1>3

\* The decision of a transaction keeps its table within the limits.
LEMMA DecideWithinLimit ==
  ASSUME TypeOK, DraftOK, HardLimit,
         NEW p \in Pickers, NEW C \in SUBSET Accounts, NEW lim \in LimitChoices,
         NEW demoted, Decide(p, C, lim, demoted)
  PROVE  \A a \in Accounts : Cardinality(LiveOf(draft', a, clock)) <= Capacity[a]
  <1> USE ConstantsAssumption
  <1> DEFINE table == Cleaned(p)
             open == {a \in C : HasRoom(table, a, C, now[p], lim[a])}
  <1>1. table \subseteq rows /\ table \subseteq Reservation
    BY DEF Cleaned, Unexpired, TypeOK
  <1>2. IsFiniteSet(table) /\ IsFiniteSet(rows)
    BY <1>1, FS_Subset DEF DraftOK
  <1>3. clock \in Int /\ now[p] \in Int /\ now[p] <= clock
    BY DEF TypeOK, Time, DraftOK
  <1>4. \A a \in Accounts : Cardinality(LiveOf(table, a, clock)) <= Capacity[a]
    BY <1>1, <1>2, <1>3, LimitsShrink DEF HardLimit, TypeOK
  <1>5. CASE draft' = table
    BY <1>4, <1>5
  <1>6. ASSUME NEW b \in Choices(open, demoted), draft' = table \cup {NewRow(p, b)}
        PROVE  \A a \in Accounts : Cardinality(LiveOf(draft', a, clock)) <= Capacity[a]
    <2>1. b \in C /\ b \in Accounts /\ InFlight(table, b, C, now[p]) < lim[b]
      BY ChoiceIsOpen DEF HasRoom
    <2>2. lim[b] \in Nat /\ lim[b] <= Capacity[b]
      BY <2>1 DEF LimitChoices
    <2>3. /\ InFlight(table, b, C, now[p]) \in Nat
          /\ Cardinality(LiveOf(table, b, now[p])) \in Nat
          /\ Cardinality(LiveOf(table, b, now[p])) <= InFlight(table, b, C, now[p])
      BY <1>2, <1>3, <2>1, InFlightCoversOwn
    <2>4. \A r \in table : r.expires \in Int
      BY <1>1 DEF Reservation, Time
    <2>5. /\ Cardinality(LiveOf(table, b, clock)) \in Nat
          /\ Cardinality(LiveOf(table, b, clock)) <= Cardinality(LiveOf(table, b, now[p]))
      BY <1>2, <1>3, <2>4, LiveShrinks
    <2>6. NewRow(p, b).account = b
      BY DEF NewRow
    <2>7. Cardinality(LiveOf(table, b, clock)) + 1 <= Capacity[b]
      BY <2>1, <2>2, <2>3, <2>5
    <2>8. Cardinality(LiveOf(draft', b, clock)) <= Cardinality(LiveOf(table, b, clock)) + 1
      BY <1>2, <1>3, <1>6, <2>6, LiveAfterInsert
    <2>9. Cardinality(LiveOf(draft', b, clock)) \in Nat
      <3>1. IsFiniteSet(draft')
        BY <1>2, <1>6, FS_AddElement
      <3>2. LiveOf(draft', b, clock) \subseteq draft'
        BY DEF LiveOf
      <3>3. IsFiniteSet(LiveOf(draft', b, clock))
        BY <3>1, <3>2, FS_Subset
      <3>4. QED
        BY <3>3, FS_CardinalityType
    <2>10. Cardinality(LiveOf(draft', b, clock)) <= Capacity[b]
      BY <2>1, <2>5, <2>7, <2>8, <2>9
    <2>11. ASSUME NEW a \in Accounts, a # b
           PROVE  Cardinality(LiveOf(draft', a, clock)) <= Capacity[a]
      <3>1. LiveOf(draft', a, clock) = LiveOf(table, a, clock)
        BY <1>6, <2>6, <2>11 DEF LiveOf
      <3>2. QED
        BY <3>1, <1>4
    <2>12. QED
      BY <2>10, <2>11
  <1>7. QED
    BY <1>5, <1>6 DEF Decide

\* Every step keeps the committed and the uncommitted table within the limits:
\* only Decide adds a row, and it counted all the rows of the account first.
LEMMA LimitStep ==
  SafetyInv /\ [Next]_vars => (HardLimit /\ DraftWithinLimit)'
  <1> SUFFICES ASSUME SafetyInv, [Next]_vars
               PROVE  HardLimit' /\ DraftWithinLimit'
    OBVIOUS
  <1> USE ConstantsAssumption DEF SafetyInv
  <1>1. /\ clock \in Int /\ clock <= clock
        /\ rows \subseteq Reservation /\ draft \subseteq Reservation
        /\ IsFiniteSet(rows) /\ IsFiniteSet(draft)
    BY DEF TypeOK, Time, DraftOK
  \* Rows go or time passes, while the open transaction stays as it is.
  <1>2. ASSUME rows' \subseteq rows, clock' \in Int, clock <= clock',
               \A q \in Pickers : pc'[q] = "decided" => pc[q] = "decided" /\ draft' = draft
        PROVE  HardLimit' /\ DraftWithinLimit'
    <2>1. \A a \in Accounts : Cardinality(LiveOf(rows', a, clock')) <= Capacity[a]
      BY <1>1, <1>2, LimitsShrink DEF HardLimit
    <2>2. ASSUME NEW q \in Pickers, pc'[q] = "decided"
          PROVE  \A a \in Accounts : Cardinality(LiveOf(draft', a, clock')) <= Capacity[a]
      <3>1. \A a \in Accounts : Cardinality(LiveOf(draft, a, clock)) <= Capacity[a]
        BY <1>2, <2>2 DEF DraftWithinLimit
      <3>2. \A a \in Accounts : Cardinality(LiveOf(draft, a, clock')) <= Capacity[a]
        BY <1>1, <1>2, <3>1, LimitsShrink
      <3>3. QED
        BY <1>2, <2>2, <3>2
    <2>3. QED
      BY <2>1, <2>2 DEF HardLimit, DraftWithinLimit, LiveOf
  <1>3. ASSUME NEW p \in Pickers, NEW C \in SUBSET Accounts, NEW lim \in LimitChoices,
               NEW demoted, Decide(p, C, lim, demoted)
        PROVE  HardLimit' /\ DraftWithinLimit'
    <2>1. UNCHANGED << rows, clock >>
      BY <1>3 DEF Decide
    <2>2. \A a \in Accounts : Cardinality(LiveOf(draft', a, clock)) <= Capacity[a]
      BY <1>3, DecideWithinLimit
    <2>3. QED
      BY <2>1, <2>2 DEF HardLimit, DraftWithinLimit, LiveOf
  <1>4. ASSUME NEW p \in Pickers, EndPick(p)
        PROVE  \A q \in Pickers : pc'[q] = "decided" => pc[q] = "decided" /\ draft' = draft
    <2> SUFFICES ASSUME NEW q \in Pickers, pc'[q] = "decided"
                 PROVE  pc[q] = "decided" /\ draft' = draft
      OBVIOUS
    <2>1. q # p /\ pc[q] = "decided"
      BY <1>4 DEF EndPick, TypeOK
    <2>2. writer = q
      BY <2>1 DEF LocksHeldByPick
    <2>3. QED
      BY <1>4, <2>1, <2>2 DEF EndPick, deciding
  <1>5. ASSUME NEW p \in Pickers, CommitRows(p)
        PROVE  HardLimit' /\ DraftWithinLimit'
    <2>1. /\ pc[p] = "decided" /\ rows' = draft /\ EndPick(p) /\ clock' = clock
      BY <1>5 DEF CommitRows
    <2>2. HardLimit'
      BY <2>1 DEF HardLimit, DraftWithinLimit, LiveOf
    <2>3. ASSUME NEW q \in Pickers
          PROVE  pc'[q] # "decided"
      <3>1. CASE q = p
        BY <2>1, <3>1 DEF EndPick, TypeOK
      <3>2. CASE q # p
        BY <2>1, <3>2 DEF EndPick, TypeOK, LocksHeldByPick
      <3>3. QED
        BY <3>1, <3>2
    <2>4. QED
      BY <2>2, <2>3 DEF DraftWithinLimit
  <1>6. ASSUME NEW p \in Pickers, Pick(p)
        PROVE  HardLimit' /\ DraftWithinLimit'
    <2>1. CASE StartPick(p) \/ TakePickMu(p) \/ BeginImmediate(p)
      <3>1. UNCHANGED << rows, clock, draft >>
        BY <2>1 DEF StartPick, TakePickMu, BeginImmediate, deciding
      <3>2. \A q \in Pickers : pc'[q] = "decided" => pc[q] = "decided"
        BY <2>1 DEF StartPick, TakePickMu, BeginImmediate, TypeOK
      <3>3. QED
        BY <1>1, <1>2, <3>1, <3>2
    <2>2. CASE Abandon(p)
      <3>1. UNCHANGED << rows, clock >> /\ EndPick(p)
        BY <2>2 DEF Abandon
      <3>2. QED
        BY <1>1, <1>2, <1>4, <3>1
    <2>3. CASE \E C \in (SUBSET Accounts) \ {{}}, lim \in LimitChoices,
                   demoted \in SUBSET Accounts : Decide(p, C, lim, demoted)
      BY <1>3, <2>3
    <2>4. QED
      BY <1>5, <1>6, <2>1, <2>2, <2>3
         DEF Pick, PickFails, PickTimesOut, CommitGrant, CommitReject
  <1>7. ASSUME rows' \subseteq rows, clock' \in Int, clock <= clock', UNCHANGED << pc, draft >>
        PROVE  HardLimit' /\ DraftWithinLimit'
    BY <1>2, <1>7
  <1>8. ASSUME NEW matches, Release(matches)
        PROVE  HardLimit' /\ DraftWithinLimit'
    BY <1>1, <1>7, <1>8 DEF Release, picking, deciding
  <1>9. ASSUME NEW q, CallbackLost(q)
        PROVE  HardLimit' /\ DraftWithinLimit'
    BY <1>1, <1>7, <1>9 DEF CallbackLost, picking, deciding
  <1>10. ASSUME NEW t, SummaryCleanup(t)
         PROVE  HardLimit' /\ DraftWithinLimit'
    BY <1>1, <1>7, <1>10 DEF SummaryCleanup, Unexpired, picking, deciding
  <1>11. CASE Tick
    BY <1>1, <1>7, <1>11 DEF Tick, picking, deciding
  <1>12. ASSUME NEW m \in Processes, Crash(m)
         PROVE  HardLimit' /\ DraftWithinLimit'
    <2>1. UNCHANGED << rows, clock >>
      BY <1>12 DEF Crash
    <2>2. ASSUME NEW q \in Pickers, pc'[q] = "decided"
          PROVE  pc[q] = "decided" /\ draft' = draft
      <3>1. ProcessOf[q] # m /\ pc[q] = "decided"
        BY <1>12, <2>2 DEF Crash, TypeOK
      <3>2. writer = q
        BY <3>1 DEF LocksHeldByPick
      <3>3. QED
        BY <1>12, <3>1, <3>2 DEF Crash, deciding
    <2>3. QED
      BY <1>1, <1>2, <2>1, <2>2
  <1>13. CASE UNCHANGED vars
    BY <1>1, <1>7, <1>13 DEF vars
  <1>14. QED
    BY <1>6, <1>8, <1>9, <1>10, <1>11, <1>12, <1>13
       DEF Next, RequestEnds, UsageCallback, StrayCallback

\* The inductive invariant holds initially: no row, no transaction.
LEMMA SafetyInit == Init => SafetyInv
  <1> SUFFICES ASSUME Init
               PROVE  HardLimit /\ DraftWithinLimit
    BY InitTypes DEF SafetyInv
  <1>1. \A a \in Accounts : LiveOf(rows, a, clock) = {}
    BY DEF Init, LiveOf
  <1>2. HardLimit
    <2>1. Cardinality({}) = 0
      BY FS_EmptySet
    <2>2. \A a \in Accounts : Capacity[a] \in Nat
      BY ConstantsAssumption
    <2>3. QED
      BY <1>1, <2>1, <2>2 DEF HardLimit
  <1>3. DraftWithinLimit
    BY DEF Init, DraftWithinLimit
  <1>4. QED
    BY <1>2, <1>3

\* The inductive invariant holds in every reachable state.
LEMMA SafetyInvariant == Spec => []SafetyInv
  <1>1. SafetyInv /\ [Next]_vars => SafetyInv'
    BY TypeStep, LocksStep, DraftStep, LimitStep DEF SafetyInv
  <1>2. QED
    BY SafetyInit, <1>1, PTL DEF Spec

\* No interleaving of processes, stale clocks, timeouts, crashes, lost or
\* repeated callbacks lets an account have more unexpired reservations than
\* its capacity.
THEOREM HardLimitHolds == Spec => []HardLimit
  <1>1. SafetyInv => HardLimit
    BY DEF SafetyInv
  <1>2. QED
    BY SafetyInvariant, <1>1, PTL

\* Both locks are held by exactly the picks inside the sections they guard.
THEOREM LocksNeverLeak == Spec => []LocksHeldByPick
  <1>1. SafetyInv => LocksHeldByPick
    BY DEF SafetyInv
  <1>2. QED
    BY SafetyInvariant, <1>1, PTL

-----------------------------------------------------------------------------
(* What a transaction in progress rests on                                 *)

(***************************************************************************)
(* What a decided pick is about to commit: the table it read, cleaned if a *)
(* cleanup was due, and the row of the account it chose; if it rejects,    *)
(* every account it refused was full when it read the clock.               *)
(***************************************************************************)
Insertion(p) == IF chosen = None THEN {} ELSE {NewRow(p, chosen)}
WasFull(p, a) ==
  \E l \in Limits[a] :
    Cardinality({r \in rows : r.account \in {a} \cup Twins[a] /\ r.expires > now[p]}) >= l
Decided(p) ==
  /\ draft = Cleaned(p) \cup Insertion(p)
  /\ chosen = None => \A a \in refused : WasFull(p, a)

TransactionInv ==
  /\ \A p \in Pickers : pc[p] = "decided" => Decided(p)
  /\ \A r \in rows : r.id < nextId
  /\ \A r, s \in rows : r.id = s.id => r = s
  /\ \A m \in Processes : cleanupAt[m] # None => cleanupAt[m] <= clock
  /\ CleanupDurable

\* Nothing changes under a pick that has decided and has not committed.
LEMMA DecisionKept ==
  ASSUME TypeOK, LocksHeldByPick, [Next]_vars,
         NEW p \in Pickers, pc[p] = "decided", pc'[p] = "decided"
  PROVE  /\ UNCHANGED << rows, nextId, draft, chosen, refused >>
         /\ now'[p] = now[p]
         /\ cleanupAt'[ProcessOf[p]] = cleanupAt[ProcessOf[p]]
  <1> DEFINE Kept == /\ UNCHANGED << rows, nextId, draft, chosen, refused >>
                     /\ now'[p] = now[p]
                     /\ cleanupAt'[ProcessOf[p]] = cleanupAt[ProcessOf[p]]
  <1> USE ConstantsAssumption
  <1>1. writer = p /\ p # None
    BY DEF LocksHeldByPick
  <1>2. \A q \in Pickers : pc[q] \in {"writing", "decided"} => q = p
    BY <1>1 DEF LocksHeldByPick
  <1>3. ASSUME NEW q \in Pickers, Pick(q)
        PROVE  Kept
    <2>1. CASE StartPick(q) \/ TakePickMu(q) \/ BeginImmediate(q)
      BY <1>1, <2>1 DEF StartPick, TakePickMu, BeginImmediate, deciding, TypeOK
    <2>2. CASE \E C \in (SUBSET Accounts) \ {{}}, lim \in LimitChoices,
                   demoted \in SUBSET Accounts : Decide(q, C, lim, demoted)
      BY <1>2, <2>2 DEF Decide
    <2>3. CASE CommitRows(q)
      BY <1>2, <2>3 DEF CommitRows, EndPick, TypeOK
    <2>4. CASE Abandon(q)
      <3>1. q # p
        BY <2>4 DEF Abandon, EndPick, TypeOK
      <3>2. QED
        BY <1>1, <2>4, <3>1 DEF Abandon, EndPick, deciding, TypeOK
    <2>5. QED
      BY <1>3, <2>1, <2>2, <2>3, <2>4
         DEF Pick, CommitGrant, CommitReject, PickFails, PickTimesOut
  <1>4. ASSUME NEW m \in Processes, Crash(m)
        PROVE  Kept
    <2>1. ProcessOf[p] # m
      BY <1>4 DEF Crash
    <2>2. QED
      BY <1>1, <1>4, <2>1 DEF Crash, deciding, TypeOK
  <1>5. ASSUME NEW matches, Release(matches)
        PROVE  Kept
    BY <1>1, <1>5 DEF Release
  <1>6. ASSUME NEW t, SummaryCleanup(t)
        PROVE  Kept
    BY <1>1, <1>6 DEF SummaryCleanup
  <1>7. ASSUME NEW q, CallbackLost(q)
        PROVE  Kept
    BY <1>7 DEF CallbackLost, picking, deciding
  <1>8. CASE Tick
    BY <1>8 DEF Tick, picking, deciding
  <1>9. CASE UNCHANGED vars
    BY <1>9 DEF vars, picking, deciding
  <1>10. QED
    BY <1>3, <1>4, <1>5, <1>6, <1>7, <1>8, <1>9
       DEF Next, RequestEnds, UsageCallback, StrayCallback

\* A pick is decided by Decide alone.
LEMMA DecidedByDecide ==
  ASSUME TypeOK, [Next]_vars, NEW p \in Pickers, pc[p] # "decided", pc'[p] = "decided"
  PROVE  \E C \in (SUBSET Accounts) \ {{}}, lim \in LimitChoices, demoted \in SUBSET Accounts :
           Decide(p, C, lim, demoted)
  <1>1. ASSUME NEW q \in Pickers, Pick(q)
        PROVE  \E C \in (SUBSET Accounts) \ {{}}, lim \in LimitChoices,
                   demoted \in SUBSET Accounts : Decide(p, C, lim, demoted)
    <2>1. ~(StartPick(q) \/ TakePickMu(q) \/ BeginImmediate(q))
      BY DEF StartPick, TakePickMu, BeginImmediate, TypeOK
    <2>2. ~EndPick(q)
      BY DEF EndPick, TypeOK
    <2>3. PICK C \in (SUBSET Accounts) \ {{}}, lim \in LimitChoices,
               demoted \in SUBSET Accounts : Decide(q, C, lim, demoted)
      BY <1>1, <2>1, <2>2
         DEF Pick, CommitGrant, CommitReject, CommitRows, PickFails, PickTimesOut, Abandon
    <2>4. pc' = [pc EXCEPT ![q] = "decided"]
      BY <2>3 DEF Decide
    <2>5. q = p
      BY <2>4 DEF TypeOK
    <2>6. QED
      BY <2>3, <2>5
  <1>2. ASSUME NEW m \in Processes, Crash(m)
        PROVE  FALSE
    BY <1>2 DEF Crash
  <1>3. CASE pc' # pc
    BY <1>1, <1>2, <1>3
       DEF Next, RequestEnds, UsageCallback, CallbackLost, StrayCallback, Release,
           SummaryCleanup, Tick, picking, vars
  <1>4. QED
    BY <1>3

\* A decision is what Decided says of it.
LEMMA DecideDecides ==
  ASSUME TypeOK, DraftOK, NEW p \in Pickers, NEW C \in SUBSET Accounts,
         NEW lim \in LimitChoices, NEW demoted, Decide(p, C, lim, demoted)
  PROVE  Decided(p)'
  <1> USE ConstantsAssumption
  <1> DEFINE table == Cleaned(p)
             open == {a \in C : HasRoom(table, a, C, now[p], lim[a])}
             recent(a) == {r \in rows : r.account \in {a} \cup Twins[a] /\ r.expires > now[p]}
  <1>1. UNCHANGED << rows, now, nextId, cleanupAt >>
    BY DEF Decide
  <1>2. Cleaned(p)' = table
    BY <1>1 DEF Cleaned, CleanupDue
  <1>3. draft' = table \cup Insertion(p)'
    <2>1. CASE chosen' = None /\ draft' = table
      BY <2>1 DEF Insertion
    <2>2. ASSUME NEW a \in Choices(open, demoted), chosen' = a, draft' = table \cup {NewRow(p, a)}
          PROVE  draft' = table \cup Insertion(p)'
      <3>1. a # None
        BY ChoiceIsOpen
      <3>2. NewRow(p, chosen)' = NewRow(p, a)
        BY <1>1, <2>2 DEF NewRow
      <3>3. QED
        BY <2>2, <3>1, <3>2 DEF Insertion
    <2>3. QED
      BY <2>1, <2>2 DEF Decide
  <1>4. ASSUME NEW a \in refused'
        PROVE  WasFull(p, a)'
    <2> DEFINE counted == {r \in table : r.account \in Counted(a, C) /\ r.expires > now[p]}
    <2>1. a \in C /\ ~HasRoom(table, a, C, now[p], lim[a])
      BY <1>4 DEF Decide
    <2>2. lim[a] \in Limits[a] /\ lim[a] \in Nat
      BY <2>1 DEF LimitChoices
    <2>3. ~(Cardinality(counted) < lim[a])
      BY <2>1 DEF HasRoom, InFlight
    <2>4. counted \subseteq recent(a) /\ recent(a) \subseteq rows
      BY DEF Counted, Cleaned, Unexpired
    <2>5. IsFiniteSet(recent(a))
      BY <2>4, FS_Subset DEF DraftOK
    <2>6. IsFiniteSet(counted) /\ Cardinality(counted) <= Cardinality(recent(a))
      BY <2>4, <2>5, FS_Subset
    <2>7. Cardinality(counted) \in Nat /\ Cardinality(recent(a)) \in Nat
      BY <2>5, <2>6, FS_CardinalityType
    <2>8. Cardinality(recent(a)) >= lim[a]
      BY <2>2, <2>3, <2>6, <2>7
    <2>9. QED
      BY <1>1, <2>2, <2>8 DEF WasFull
  <1>5. QED
    BY <1>2, <1>3, <1>4 DEF Decided

\* A decided pick that can still commit has a row to insert that is new, and that
\* expires later than the clock, and later than any cleanup recorded so far.
LEMMA InsertedIsNew ==
  ASSUME TypeOK, DraftOK, TransactionInv, NEW p \in Pickers, InTime(p), chosen # None
  PROVE  /\ NewRow(p, chosen).account = chosen /\ NewRow(p, chosen).id = nextId
         /\ NewRow(p, chosen) \notin rows
         /\ NewRow(p, chosen).expires > clock /\ NewRow(p, chosen).expires > now[p]
         /\ \A m \in Processes : cleanupAt[m] # None => NewRow(p, chosen).expires > cleanupAt[m]
  <1> USE ConstantsAssumption
  <1>1. /\ clock \in Int /\ now[p] \in Int /\ nextId \in Int
        /\ \A m \in Processes : cleanupAt[m] # None => cleanupAt[m] \in Int
    BY DEF TypeOK, Time
  <1>2. now[p] + TTL > clock
    BY <1>1 DEF InTime
  <1>3. NewRow(p, chosen).expires = now[p] + TTL
    BY DEF NewRow
  <1>4. now[p] + TTL > now[p]
    BY <1>1
  <1>5. NewRow(p, chosen).account = chosen /\ NewRow(p, chosen).id = nextId
    BY DEF NewRow
  <1>6. NewRow(p, chosen) \notin rows
    BY <1>1, <1>5 DEF TransactionInv
  <1>7. \A m \in Processes : cleanupAt[m] # None => now[p] + TTL > cleanupAt[m]
    BY <1>1, <1>2 DEF TransactionInv
  <1>8. QED
    BY <1>2, <1>3, <1>4, <1>5, <1>6, <1>7

\* The rows, ids and cleanup times a commit leaves.
LEMMA CommitKeepsTransactions ==
  ASSUME TypeOK, DraftOK, TransactionInv, NEW p \in Pickers, CommitRows(p),
         IF chosen = None THEN nextId' = nextId ELSE nextId' = nextId + 1
  PROVE  /\ \A r \in rows' : r.id < nextId'
         /\ \A r, s \in rows' : r.id = s.id => r = s
         /\ \A m \in Processes : cleanupAt'[m] # None => cleanupAt'[m] <= clock'
         /\ CleanupDurable'
  <1> USE ConstantsAssumption
  <1>1. InTime(p) /\ Decided(p) /\ rows' = draft /\ clock' = clock
    BY DEF CommitRows, TransactionInv
  <1>2. rows' \subseteq rows \cup Insertion(p)
    BY <1>1 DEF Decided, Cleaned, Unexpired
  <1>3. nextId \in Int /\ clock \in Int /\ now[p] \in Int /\ now[p] <= clock
        /\ \A r \in rows : r.id \in Int /\ r.expires \in Int
    BY DEF TypeOK, Time, Reservation, DraftOK
  <1>4. \A r \in rows' : r.id < nextId'
    <2>1. ASSUME NEW r \in rows, r \in rows'
          PROVE  r.id < nextId'
      BY <1>3, <2>1 DEF TransactionInv
    <2>2. ASSUME NEW r \in Insertion(p)
          PROVE  r.id < nextId'
      BY <1>1, <1>3, <2>2, InsertedIsNew DEF Insertion
    <2>3. QED
      BY <1>2, <2>1, <2>2
  <1>5. ASSUME NEW m \in Processes, cleanupAt'[m] # None
        PROVE  /\ cleanupAt'[m] <= clock'
               /\ \A r \in rows' : r.expires > cleanupAt'[m]
    <2>1. CASE cleanupAt'[m] = cleanupAt[m]
      <3>1. \A r \in Insertion(p) : r.expires > cleanupAt[m]
        BY <1>1, <1>5, <2>1, InsertedIsNew DEF Insertion
      <3>2. QED
        BY <1>1, <1>2, <1>5, <2>1, <3>1 DEF TransactionInv, CleanupDurable
    <2>2. CASE cleanupAt'[m] # cleanupAt[m]
      <3>1. CleanupDue(p) /\ cleanupAt'[m] = now[p]
        BY <2>2 DEF CommitRows, TypeOK
      <3>2. \A r \in Cleaned(p) : r.expires > now[p]
        BY <3>1 DEF Cleaned, Unexpired
      <3>3. \A r \in Insertion(p) : r.expires > now[p]
        BY <1>1, InsertedIsNew DEF Insertion
      <3>4. QED
        BY <1>1, <1>3, <3>1, <3>2, <3>3 DEF Decided
    <2>3. QED
      BY <2>1, <2>2
  <1>6. \A r, s \in rows' : r.id = s.id => r = s
    <2>1. \A r \in rows, s \in Insertion(p) : r.id # s.id
      BY <1>1, <1>3, InsertedIsNew DEF Insertion, TransactionInv
    <2>2. \A r, s \in Insertion(p) : r = s
      BY DEF Insertion
    <2>3. QED
      BY <1>2, <2>1, <2>2 DEF TransactionInv
  <1>7. QED
    BY <1>4, <1>5, <1>6 DEF CleanupDurable

\* Every step keeps it: a transaction in progress is undisturbed, the others only
\* remove rows, let time pass or forget a cleanup.
LEMMA TransactionStep ==
  SafetyInv /\ TransactionInv /\ [Next]_vars => TransactionInv'
  <1> SUFFICES ASSUME SafetyInv, TransactionInv, [Next]_vars
               PROVE  TransactionInv'
    OBVIOUS
  <1> USE ConstantsAssumption DEF SafetyInv
  <1>1. ASSUME NEW p \in Pickers, pc'[p] = "decided"
        PROVE  Decided(p)'
    <2>1. CASE pc[p] = "decided"
      <3>1. /\ UNCHANGED << rows, nextId, draft, chosen, refused >>
            /\ now'[p] = now[p]
            /\ cleanupAt'[ProcessOf[p]] = cleanupAt[ProcessOf[p]]
        BY <1>1, <2>1, DecisionKept
      <3>2. Decided(p)
        BY <2>1 DEF TransactionInv
      <3>3. Cleaned(p)' = Cleaned(p) /\ Insertion(p)' = Insertion(p)
        BY <3>1 DEF Cleaned, CleanupDue, Insertion, NewRow
      <3>4. QED
        BY <3>1, <3>2, <3>3 DEF Decided, WasFull
    <2>2. CASE pc[p] # "decided"
      BY <1>1, <2>2, DecidedByDecide, DecideDecides
    <2>3. QED
      BY <2>1, <2>2
  <1> DEFINE Rest == /\ \A r \in rows : r.id < nextId
                     /\ \A r, s \in rows : r.id = s.id => r = s
                     /\ \A m \in Processes : cleanupAt[m] # None => cleanupAt[m] <= clock
                     /\ CleanupDurable
  <1>2. ASSUME rows' \subseteq rows, nextId' = nextId, clock' \in Int, clock <= clock',
               \A m \in Processes : cleanupAt'[m] \in {None, cleanupAt[m]}
        PROVE  Rest'
    <2>1. clock \in Int /\ \A m \in Processes : cleanupAt[m] # None => cleanupAt[m] \in Int
      BY DEF TypeOK, Time
    <2>2. \A m \in Processes : cleanupAt'[m] # None =>
            cleanupAt'[m] <= clock' /\ \A r \in rows' : r.expires > cleanupAt'[m]
      BY <1>2, <2>1 DEF TransactionInv, CleanupDurable
    <2>3. QED
      BY <1>2, <2>2 DEF TransactionInv, CleanupDurable
  <1>3. clock \in Int /\ clock <= clock
    BY DEF TypeOK, Time
  <1>4. ASSUME NEW p \in Pickers, Pick(p)
        PROVE  Rest'
    <2>1. ASSUME NEW dispatched, CommitGrant(p, dispatched)
          PROVE  Rest'
      BY <2>1, CommitKeepsTransactions DEF CommitGrant
    <2>2. CASE CommitReject(p)
      BY <2>2, CommitKeepsTransactions DEF CommitReject
    <2>3. CASE UNCHANGED << rows, nextId, clock, cleanupAt >>
      BY <1>2, <1>3, <2>3
    <2>4. QED
      BY <1>4, <2>1, <2>2, <2>3
         DEF Pick, StartPick, TakePickMu, BeginImmediate, Decide, PickFails, PickTimesOut, Abandon
  <1>5. ASSUME NEW matches, Release(matches)
        PROVE  Rest'
    BY <1>2, <1>3, <1>5 DEF Release
  <1>6. ASSUME NEW t, SummaryCleanup(t)
        PROVE  Rest'
    BY <1>2, <1>3, <1>6 DEF SummaryCleanup, Unexpired
  <1>7. ASSUME NEW q, CallbackLost(q)
        PROVE  Rest'
    BY <1>2, <1>3, <1>7 DEF CallbackLost
  <1>8. ASSUME Tick
        PROVE  Rest'
    <2>1. clock' \in Int /\ clock <= clock' /\ UNCHANGED << rows, nextId, cleanupAt >>
      BY <1>3, <1>8 DEF Tick
    <2>2. QED
      BY <1>2, <2>1
  <1>9. ASSUME NEW m \in Processes, Crash(m)
        PROVE  Rest'
    <2>1. UNCHANGED << rows, nextId, clock >>
      BY <1>9 DEF Crash
    <2>2. \A n \in Processes : cleanupAt'[n] \in {None, cleanupAt[n]}
      BY <1>9 DEF Crash, TypeOK
    <2>3. QED
      BY <1>2, <1>3, <2>1, <2>2
  <1>10. ASSUME UNCHANGED vars
         PROVE  Rest'
    BY <1>2, <1>3, <1>10 DEF vars
  <1>11. Rest'
    BY <1>4, <1>5, <1>6, <1>7, <1>8, <1>9, <1>10
       DEF Next, RequestEnds, UsageCallback, StrayCallback
  <1>12. QED
    BY <1>1, <1>11 DEF TransactionInv

LEMMA TransactionInvariant == Spec => [](SafetyInv /\ TransactionInv)
  <1>1. Init => TransactionInv
    BY DEF Init, TransactionInv, CleanupDurable
  <1>2. SafetyInv /\ TransactionInv /\ [Next]_vars => TransactionInv'
    BY TransactionStep
  <1>3. QED
    BY SafetyInvariant, <1>1, <1>2, PTL DEF Spec

\* A recorded cleanup was committed, and no pick inserts a row that would have
\* expired by then, whatever the age of its clock: its deadline is shorter than
\* the TTL.
THEOREM CleanupsAreDurable == Spec => []CleanupDurable
  <1>1. TransactionInv => CleanupDurable
    BY DEF TransactionInv
  <1>2. QED
    BY TransactionInvariant, <1>1, PTL

\* A pick is rejected only for accounts that were full at most a deadline ago.
THEOREM RejectionsAreJustified == Spec => []RejectsOnlyWhenFull
  <1>1. SafetyInv /\ TransactionInv => RejectsOnlyWhenFull
    <2> SUFFICES ASSUME SafetyInv, TransactionInv,
                        NEW p \in Pickers, pc[p] = "decided", chosen = None, InTime(p),
                        NEW a \in refused
                 PROVE  \E l \in Limits[a] :
                          Cardinality({r \in rows : r.account \in {a} \cup Twins[a]
                                         /\ r.expires > clock - PickDeadline}) >= l
      BY DEF RejectsOnlyWhenFull
    <2> USE ConstantsAssumption DEF SafetyInv
    <2> DEFINE then == {r \in rows : r.account \in {a} \cup Twins[a] /\ r.expires > now[p]}
               counted == {r \in rows : r.account \in {a} \cup Twins[a]
                                          /\ r.expires > clock - PickDeadline}
    <2>1. PICK l \in Limits[a] : Cardinality(then) >= l
      BY DEF TransactionInv, Decided, WasFull
    <2>2. a \in Accounts /\ l \in Nat
      BY DEF TypeOK
    <2>3. clock \in Int /\ now[p] \in Int /\ \A r \in rows : r.expires \in Int
      BY DEF TypeOK, Time, Reservation
    <2>4. clock - PickDeadline <= now[p]
      BY <2>3 DEF InTime
    <2>5. then \subseteq counted /\ counted \subseteq rows
      BY <2>3, <2>4
    <2>6. IsFiniteSet(counted)
      BY <2>5, FS_Subset DEF DraftOK
    <2>7. IsFiniteSet(then) /\ Cardinality(then) <= Cardinality(counted)
      BY <2>5, <2>6, FS_Subset
    <2>8. Cardinality(then) \in Nat /\ Cardinality(counted) \in Nat
      BY <2>6, <2>7, FS_CardinalityType
    <2>9. Cardinality(counted) >= l
      BY <2>1, <2>2, <2>7, <2>8
    <2>10. QED
      BY <2>9
  <1>2. QED
    BY TransactionInvariant, <1>1, PTL

-----------------------------------------------------------------------------
(* The abstract semaphore                                                  *)

\* A cleanup takes nothing from the count.
LEMMA CleanupIsUnseen ==
  ASSUME NEW T, \A r \in T : r.expires \in Int, NEW t \in Int, NEW u \in Int, t <= u, NEW a
  PROVE  LiveOf(Unexpired(T, t), a, u) = LiveOf(T, a, u)
  BY DEF LiveOf, Unexpired

\* What is counted of an account is a number.
LEMMA HeldIsNat ==
  ASSUME DraftOK, NEW a
  PROVE  IsFiniteSet(LiveOf(rows, a, clock)) /\ Held(a) \in Nat
  <1>1. LiveOf(rows, a, clock) \subseteq rows
    BY DEF LiveOf
  <1>2. QED
    BY <1>1, FS_Subset, FS_CardinalityType DEF DraftOK, Held

\* A callback gives back one unit of one account, or nothing: the oldest matching row
\* is one, because no two rows have the same id.
LEMMA ReleaseIsRelease ==
  ASSUME SafetyInv, TransactionInv, NEW matches, Release(matches)
  PROVE  \/ \A a \in Accounts : Held(a)' = Held(a)
         \/ \E b \in Accounts :
              /\ Held(b) > 0 /\ Held(b)' = Held(b) - 1
              /\ \A a \in Accounts \ {b} : Held(a)' = Held(a)
  <1> USE ConstantsAssumption DEF SafetyInv
  <1> DEFINE matching == {r \in rows : r.account \in matches /\ r.expires > clock}
  <1>1. rows' = rows \ ReleasedRow(matching) /\ clock' = clock
    BY DEF Release
  <1>2. CASE ReleasedRow(matching) = {}
    BY <1>1, <1>2 DEF Held, LiveOf
  <1>3. ASSUME NEW r \in ReleasedRow(matching)
        PROVE  \E b \in Accounts :
                 /\ Held(b) > 0 /\ Held(b)' = Held(b) - 1
                 /\ \A a \in Accounts \ {b} : Held(a)' = Held(a)
    <2>1. r \in rows /\ r.expires > clock /\ r.account \in Accounts
      BY DEF ReleasedRow, TypeOK, Reservation
    <2>2. \A s \in rows : s.created \in Int /\ s.id \in Int
      BY DEF TypeOK, Reservation, Time
    <2>3. ASSUME NEW s \in ReleasedRow(matching)
          PROVE  s = r
      <3>1. s \in rows /\ Older(s, r) /\ Older(r, s)
        BY DEF ReleasedRow
      <3>2. s.id = r.id
        BY <2>1, <2>2, <3>1 DEF Older
      <3>3. QED
        BY <2>1, <3>1, <3>2 DEF TransactionInv
    <2>4. rows' = rows \ {r}
      BY <1>1, <2>3
    <2>5. \A a \in Accounts \ {r.account} : LiveOf(rows', a, clock') = LiveOf(rows, a, clock)
      BY <1>1, <2>4 DEF LiveOf
    <2>6. /\ LiveOf(rows', r.account, clock') = LiveOf(rows, r.account, clock) \ {r}
          /\ r \in LiveOf(rows, r.account, clock)
      BY <1>1, <2>1, <2>4 DEF LiveOf
    <2>7. /\ IsFiniteSet(LiveOf(rows, r.account, clock)) /\ Held(r.account) \in Nat
      BY HeldIsNat
    <2>8. Cardinality(LiveOf(rows', r.account, clock')) = Held(r.account) - 1
      <3> DEFINE before == LiveOf(rows, r.account, clock)
      <3>1. Cardinality(before \ {r}) = Cardinality(before) - 1
        <4> HIDE DEF before
        <4>1. r \in before /\ IsFiniteSet(before)
          BY <2>6, <2>7 DEF before
        <4>2. QED
          BY <4>1, FS_RemoveElement
      <3>2. QED
        BY <2>6, <3>1 DEF Held
    <2>9. Held(r.account) # 0
      BY <2>6, <2>7, FS_EmptySet DEF Held
    <2>10. Held(r.account) > 0 /\ Held(r.account)' = Held(r.account) - 1
      BY <2>7, <2>8, <2>9 DEF Held
    <2>11. \A a \in Accounts \ {r.account} : Held(a)' = Held(a)
      BY <2>5 DEF Held
    <2>12. QED
      BY <2>1, <2>10, <2>11
  <1>4. QED
    BY <1>2, <1>3

\* A commit takes one unit of the chosen account, or nothing.
LEMMA CommitIsAcquire ==
  ASSUME SafetyInv, TransactionInv, NEW p \in Pickers, CommitRows(p)
  PROVE  \A a \in Accounts : Held(a)' = IF a = chosen THEN Held(a) + 1 ELSE Held(a)
  <1> USE ConstantsAssumption DEF SafetyInv
  <1>1. InTime(p) /\ Decided(p) /\ rows' = draft /\ clock' = clock
    BY DEF CommitRows, TransactionInv
  <1>2. clock \in Int /\ now[p] \in Int /\ now[p] <= clock /\ \A r \in rows : r.expires \in Int
    BY DEF TypeOK, Time, Reservation, DraftOK
  <1>3. \A a : LiveOf(Cleaned(p), a, clock) = LiveOf(rows, a, clock)
    BY <1>2, CleanupIsUnseen DEF Cleaned
  <1>4. rows' = Cleaned(p) \cup Insertion(p)
    BY <1>1 DEF Decided
  <1>5. ASSUME NEW a \in Accounts, a # chosen
        PROVE  Held(a)' = Held(a)
    <2>1. \A r \in Insertion(p) : r.account # a
      BY <1>5 DEF Insertion, NewRow
    <2>2. LiveOf(rows', a, clock') = LiveOf(Cleaned(p), a, clock)
      BY <1>1, <1>4, <2>1 DEF LiveOf
    <2>3. QED
      BY <1>3, <2>2 DEF Held
  <1>6. ASSUME NEW a \in Accounts, a = chosen
        PROVE  Held(a)' = Held(a) + 1
    <2>1. PICK new : new = NewRow(p, a)
      OBVIOUS
    <2>2. new.account = a /\ new \notin rows /\ new.expires > clock
      BY <1>1, <1>6, <2>1, InsertedIsNew
    <2>3. rows' = Cleaned(p) \cup {new}
      BY <1>4, <1>6, <2>1 DEF Insertion
    <2>4. LiveOf(rows', a, clock') = LiveOf(rows, a, clock) \cup {new}
      BY <1>1, <1>3, <2>2, <2>3 DEF LiveOf
    <2>5. new \notin LiveOf(rows, a, clock)
      BY <2>2 DEF LiveOf
    <2>6. IsFiniteSet(LiveOf(rows, a, clock)) /\ Held(a) \in Nat
      BY HeldIsNat
    <2>7. Cardinality(LiveOf(rows', a, clock')) = Held(a) + 1
      BY <2>4, <2>5, <2>6, FS_AddElement DEF Held
    <2>8. QED
      BY <2>7 DEF Held
  <1>7. QED
    BY <1>5, <1>6

\* Every step of the protocol is one of the semaphore, or changes nothing it counts.
LEMMA StepIsBudgetStep ==
  SafetyInv /\ TransactionInv /\ SafetyInv' /\ [Next]_vars
    => [Budget!Next]_<< clock, [a \in Accounts |-> Held(a)] >>
  <1> DEFINE held == [a \in Accounts |-> Held(a)]
             Unseen == UNCHANGED << clock, held >>
  <1> SUFFICES ASSUME SafetyInv, TransactionInv, SafetyInv', [Next]_vars
               PROVE  [Budget!Next]_<< clock, held >>
    OBVIOUS
  <1> USE ConstantsAssumption DEF SafetyInv
  <1>1. /\ clock \in Int /\ \A r \in rows : r.expires \in Int
        /\ \A a : IsFiniteSet(LiveOf(rows, a, clock)) /\ Held(a) \in Nat /\ Held(a)' \in Nat
    <2>1. \A a : IsFiniteSet(LiveOf(rows, a, clock)) /\ Held(a) \in Nat
      BY HeldIsNat
    <2>2. \A a : LiveOf(rows', a, clock') \subseteq rows'
      BY DEF LiveOf
    <2>3. \A a : Cardinality(LiveOf(rows', a, clock')) \in Nat
      BY <2>2, FS_Subset, FS_CardinalityType DEF DraftOK
    <2>4. \A a : Held(a)' \in Nat
      BY <2>3 DEF Held
    <2>5. QED
      BY <2>1, <2>4 DEF TypeOK, Time, Reservation
  <1>2. ASSUME UNCHANGED << rows, clock >>
        PROVE  Unseen
    BY <1>2 DEF Held
  <1>3. ASSUME NEW b \in Accounts, UNCHANGED clock, Held(b)' = Held(b) + 1,
               \A a \in Accounts \ {b} : Held(a)' = Held(a)
        PROVE  Budget!Acquire(b)
    <2>1. Capacity[b] \in Nat /\ Held(b)' <= Capacity[b]
      BY DEF HardLimit, Held
    <2>2. held[b] < Capacity[b]
      BY <1>1, <1>3, <2>1
    <2>3. held' = [held EXCEPT ![b] = @ + 1]
      BY <1>3
    <2>4. QED
      BY <1>3, <2>2, <2>3 DEF Budget!Acquire
  <1>4. ASSUME NEW b \in Accounts, UNCHANGED clock, Held(b) > 0, Held(b)' = Held(b) - 1,
               \A a \in Accounts \ {b} : Held(a)' = Held(a)
        PROVE  Budget!Release(b)
    <2>1. held' = [held EXCEPT ![b] = @ - 1]
      BY <1>4
    <2>2. QED
      BY <1>4, <2>1 DEF Budget!Release
  <1>5. ASSUME NEW p \in Pickers, Pick(p)
        PROVE  Unseen \/ Budget!Next
    <2>1. CASE CommitRows(p)
      <3>1. /\ clock' = clock
            /\ \A a \in Accounts : Held(a)' = IF a = chosen THEN Held(a) + 1 ELSE Held(a)
        BY <2>1, CommitIsAcquire DEF CommitRows
      <3>2. CASE chosen \in Accounts
        BY <1>3, <3>1, <3>2 DEF Budget!Next
      <3>3. CASE chosen \notin Accounts
        BY <3>1, <3>3
      <3>4. QED
        BY <3>2, <3>3
    <2>2. CASE UNCHANGED << rows, clock >>
      BY <1>2, <2>2
    <2>3. QED
      BY <1>5, <2>1, <2>2
         DEF Pick, StartPick, TakePickMu, BeginImmediate, Decide, CommitGrant, CommitReject,
             PickFails, PickTimesOut, Abandon
  <1>6. ASSUME NEW matches, Release(matches)
        PROVE  Unseen \/ Budget!Next
    <2>1. clock' = clock
      BY <1>6 DEF Release
    <2>2. CASE \A a \in Accounts : Held(a)' = Held(a)
      BY <2>1, <2>2
    <2>3. CASE \E b \in Accounts :
                 /\ Held(b) > 0 /\ Held(b)' = Held(b) - 1
                 /\ \A a \in Accounts \ {b} : Held(a)' = Held(a)
      BY <1>4, <2>1, <2>3 DEF Budget!Next
    <2>4. QED
      BY <1>6, <2>2, <2>3, ReleaseIsRelease
  <1>7. ASSUME NEW t \in Time, SummaryCleanup(t)
        PROVE  Unseen
    <2>1. t \in Int /\ t <= clock /\ rows' = Unexpired(rows, t) /\ clock' = clock
      BY <1>7 DEF SummaryCleanup, Time
    <2>2. \A a : LiveOf(rows', a, clock') = LiveOf(rows, a, clock)
      BY <1>1, <2>1, CleanupIsUnseen
    <2>3. QED
      BY <2>1, <2>2 DEF Held
  <1>8. ASSUME Tick
        PROVE  Budget!Lapse
    <2>1. clock' = clock + 1 /\ rows' = rows
      BY <1>8 DEF Tick
    <2>2. ASSUME NEW a \in Accounts
          PROVE  Held(a)' <= Held(a)
      <3>1. LiveOf(rows, a, clock') \subseteq LiveOf(rows, a, clock)
        BY <1>1, <2>1 DEF LiveOf
      <3>2. Cardinality(LiveOf(rows, a, clock')) <= Cardinality(LiveOf(rows, a, clock))
        BY <1>1, <3>1, FS_Subset
      <3>3. QED
        BY <2>1, <3>2 DEF Held
    <2>3. held' \in [Accounts -> Nat] /\ \A a \in Accounts : held'[a] <= held[a]
      BY <1>1, <2>2
    <2>4. QED
      BY <2>1, <2>3 DEF Budget!Lapse
  <1>9. ASSUME NEW q, CallbackLost(q)
        PROVE  Unseen
    BY <1>2, <1>9 DEF CallbackLost
  <1>10. ASSUME NEW m \in Processes, Crash(m)
         PROVE  Unseen
    BY <1>2, <1>10 DEF Crash
  <1>11. ASSUME UNCHANGED vars
         PROVE  Unseen
    BY <1>2, <1>11 DEF vars
  <1>12. Unseen \/ Budget!Next
    <2> HIDE DEF Unseen
    <2>1. QED
      BY <1>5, <1>6, <1>7, <1>8, <1>9, <1>10, <1>11
         DEF Next, RequestEnds, UsageCallback, StrayCallback, Budget!Next
  <1>13. QED
    BY <1>12

\* The reservations implement a leased counting semaphore per account: whatever is
\* cleaned up, rolled back, crashed or called back twice, a unit is taken one at a
\* time below the capacity, and given back by a callback or by time alone.
THEOREM ProtocolIsABudget == Spec => ImplementsBudget
  <1>1. Init => Budget!Init
    <2> SUFFICES ASSUME Init
                 PROVE  Budget!Init
      OBVIOUS
    <2>1. \A a : LiveOf(rows, a, clock) = {}
      BY DEF Init, LiveOf
    <2>2. \A a : Held(a) = 0
      BY <2>1, FS_EmptySet DEF Held
    <2>3. QED
      BY <2>2 DEF Init, Budget!Init
  <1>2. SafetyInv /\ TransactionInv /\ SafetyInv' /\ [Next]_vars
          => [Budget!Next]_<< clock, [a \in Accounts |-> Held(a)] >>
    BY StepIsBudgetStep
  <1>3. QED
    BY <1>1, <1>2, TransactionInvariant, PTL DEF Spec, ImplementsBudget, Budget!Spec

-----------------------------------------------------------------------------
(* The limit for the requests                                              *)

\* No other account can take the callbacks of a, nor a theirs.
Isolated(a) == Twins[a] \subseteq {a} /\ \A b \in Accounts \ {a} : a \notin Twins[b]

RequestsAfter(a, t) == {q \in requests : q.account = a /\ q.deadline > t}

(***************************************************************************)
(* However callbacks and reservations were confused, the rows of an        *)
(* account that outlive t are at least as many as its requests that may    *)
(* still run at t, for every t to come: a callback takes the row that      *)
(* expires first.                                                          *)
(***************************************************************************)
Covered(a) ==
  \A t \in Nat : t >= clock =>
    Cardinality(RequestsAfter(a, t)) <= Cardinality(LiveOf(rows, a, t))

RequestInv ==
  /\ IsFiniteSet(requests)
  /\ \A q \in requests : q.id < nextId /\ q.deadline > clock
  /\ \A r \in rows : r.expires = r.created + TTL
  /\ \A a \in Accounts : Isolated(a) => Covered(a)

\* Every callback is that of a request that runs, and the host ends it within the TTL.
Timely == ~StrayCallbacks /\ Overrun = 0
\* What the earlier sections proved of every state.
ProtocolInv == SafetyInv /\ TransactionInv

\* Both sides of the comparison are numbers.
LEMMA CountsAreNat ==
  ASSUME DraftOK, RequestInv, NEW a, NEW t
  PROVE  /\ IsFiniteSet(LiveOf(rows, a, t)) /\ Cardinality(LiveOf(rows, a, t)) \in Nat
         /\ IsFiniteSet(RequestsAfter(a, t)) /\ Cardinality(RequestsAfter(a, t)) \in Nat
  <1>1. LiveOf(rows, a, t) \subseteq rows /\ RequestsAfter(a, t) \subseteq requests
    BY DEF LiveOf, RequestsAfter
  <1> QED
    BY <1>1, FS_Subset, FS_CardinalityType DEF DraftOK, RequestInv

\* Fewer requests, the same rows or rows that go only when they have expired.
LEMMA FewerRequestsAreCovered ==
  ASSUME DraftOK, RequestInv, clock \in Nat, clock' \in Nat, clock <= clock', requests' \subseteq requests,
         NEW a \in Accounts, Covered(a),
         \A t \in Nat : t >= clock' => LiveOf(rows', a, t) = LiveOf(rows, a, t)
  PROVE  Covered(a)'
  <1> SUFFICES ASSUME NEW t \in Nat, t >= clock'
               PROVE  Cardinality(RequestsAfter(a, t)') <= Cardinality(LiveOf(rows', a, t))
    BY DEF Covered
  <1>1. Cardinality(RequestsAfter(a, t)) <= Cardinality(LiveOf(rows, a, t))
    BY DEF Covered
  <1>2. RequestsAfter(a, t)' \subseteq RequestsAfter(a, t)
    BY DEF RequestsAfter
  <1>3. /\ IsFiniteSet(RequestsAfter(a, t)) /\ Cardinality(RequestsAfter(a, t)) \in Nat
        /\ Cardinality(LiveOf(rows, a, t)) \in Nat
    BY CountsAreNat
  <1>4. /\ Cardinality(RequestsAfter(a, t)') <= Cardinality(RequestsAfter(a, t))
        /\ Cardinality(RequestsAfter(a, t)') \in Nat
    BY <1>2, <1>3, FS_Subset, FS_CardinalityType
  <1> QED
    BY <1>1, <1>3, <1>4

\* A commit adds a row, and a request that does not outlive it.
LEMMA CommitCovers ==
  ASSUME ProtocolInv, RequestInv, NEW p \in Pickers, CommitRows(p), NEW a \in Accounts,
         Covered(a),
         \/ requests' = requests
         \/ /\ chosen # None
            /\ requests' = requests \cup {[id |-> nextId, account |-> chosen,
                                           process |-> ProcessOf[p], deadline |-> now[p] + TTL]}
  PROVE  Covered(a)'
  <1> USE ConstantsAssumption DEF ProtocolInv, SafetyInv
  <1> SUFFICES ASSUME NEW t \in Nat, t >= clock'
               PROVE  Cardinality(RequestsAfter(a, t)') <= Cardinality(LiveOf(rows', a, t))
    BY DEF Covered
  <1>1. InTime(p) /\ Decided(p) /\ rows' = draft /\ clock' = clock
    BY DEF CommitRows, TransactionInv
  <1>2. /\ clock \in Nat /\ now[p] \in Int /\ now[p] <= t /\ \A r \in rows : r.expires \in Int
    BY <1>1 DEF TypeOK, Time, Reservation, DraftOK
  <1>3. LiveOf(Cleaned(p), a, t) = LiveOf(rows, a, t)
    BY <1>2, CleanupIsUnseen DEF Cleaned
  <1>4. LiveOf(rows', a, t) = LiveOf(rows, a, t) \cup LiveOf(Insertion(p), a, t)
    BY <1>1, <1>3 DEF Decided, LiveOf
  <1>5. Cardinality(RequestsAfter(a, t)) <= Cardinality(LiveOf(rows, a, t))
    BY <1>1 DEF Covered
  <1>6. /\ IsFiniteSet(LiveOf(rows, a, t)) /\ Cardinality(LiveOf(rows, a, t)) \in Nat
        /\ IsFiniteSet(RequestsAfter(a, t)) /\ Cardinality(RequestsAfter(a, t)) \in Nat
    BY CountsAreNat
  <1>7. CASE chosen = a /\ now[p] + TTL > t
    <2> DEFINE new == NewRow(p, a)
    <2>1. new.account = a /\ new.expires = now[p] + TTL /\ new \notin rows /\ chosen # None
      BY <1>1, <1>7, InsertedIsNew DEF NewRow
    <2>2. LiveOf(Insertion(p), a, t) = {new}
      BY <1>7, <2>1 DEF LiveOf, Insertion
    <2>3. Cardinality(LiveOf(rows', a, t)) = Cardinality(LiveOf(rows, a, t)) + 1
      <3> DEFINE L == LiveOf(rows, a, t)
      <3>1. new \notin L /\ IsFiniteSet(L) /\ LiveOf(rows', a, t) = L \cup {new}
        BY <1>4, <1>6, <2>1, <2>2 DEF LiveOf
      <3> HIDE DEF new, L
      <3>2. Cardinality(L \cup {new}) = Cardinality(L) + 1
        BY <3>1, FS_AddElement
      <3> QED
        BY <3>1, <3>2 DEF L
    <2>4. PICK q : RequestsAfter(a, t)' \subseteq RequestsAfter(a, t) \cup {q}
      BY DEF RequestsAfter
    <2>5. Cardinality(RequestsAfter(a, t)') <= Cardinality(RequestsAfter(a, t)) + 1
      <3> DEFINE R == RequestsAfter(a, t)
      <3> HIDE DEF R
      <3>0. IsFiniteSet(R) /\ Cardinality(R) \in Nat
        BY <1>6 DEF R
      <3>1. /\ IsFiniteSet(R \cup {q}) /\ Cardinality(R \cup {q}) <= Cardinality(R) + 1
        <4>1. CASE q \in R
          <5>1. R \cup {q} = R
            BY <4>1
          <5>2. Cardinality(R \cup {q}) = Cardinality(R)
            BY <5>1
          <5>3. IsFiniteSet(R \cup {q})
            BY <3>0, <5>1
          <5>4. Cardinality(R \cup {q}) <= Cardinality(R)
            BY <3>0, <5>2
          <5> QED
            BY <3>0, <5>2, <5>3, <5>4
        <4>2. CASE q \notin R
          <5>1. IsFiniteSet(R \cup {q}) /\ Cardinality(R \cup {q}) = Cardinality(R) + 1
            BY <3>0, <4>2, FS_AddElement
          <5> QED
            BY <3>0, <5>1
        <4> QED
          BY <4>1, <4>2
      <3>2. /\ Cardinality(RequestsAfter(a, t)') <= Cardinality(R \cup {q})
            /\ Cardinality(RequestsAfter(a, t)') \in Nat /\ Cardinality(R \cup {q}) \in Nat
        BY <2>4, <3>1, FS_Subset, FS_CardinalityType DEF R
      <3> QED
        BY <3>0, <3>1, <3>2 DEF R
    <2>6. Cardinality(RequestsAfter(a, t)') \in Nat
      <3>1. IsFiniteSet(RequestsAfter(a, t) \cup {q})
        BY <1>6, FS_AddElement
      <3> QED
        BY <2>4, <3>1, FS_Subset, FS_CardinalityType
    <2> QED
      BY <1>5, <1>6, <2>3, <2>5, <2>6
  <1>8. CASE ~(chosen = a /\ now[p] + TTL > t)
    <2>1. RequestsAfter(a, t)' = RequestsAfter(a, t)
      BY <1>8 DEF RequestsAfter
    <2>2. LiveOf(Insertion(p), a, t) = {}
      BY <1>8 DEF LiveOf, Insertion, NewRow
    <2>3. LiveOf(rows', a, t) = LiveOf(rows, a, t)
      BY <1>4, <2>2
    <2> QED
      BY <1>5, <2>1, <2>3
  <1> QED
    BY <1>7, <1>8

\* A callback of an isolated account ends one request and takes the row that expires
\* first, or none.
LEMMA CallbackCovers ==
  ASSUME ProtocolInv, RequestInv, NEW q \in requests, NEW matches \in CallbackMatches(q.account),
         UsageCallback(q, matches), NEW a \in Accounts, Isolated(a), Covered(a)
  PROVE  Covered(a)'
  <1> USE ConstantsAssumption DEF ProtocolInv, SafetyInv
  <1> DEFINE matching == {r \in rows : r.account \in matches /\ r.expires > clock}
  <1>1. /\ rows' = rows \ ReleasedRow(matching) /\ clock' = clock /\ requests' = requests \ {q}
        /\ ReleasedRow(matching) \subseteq matching
    BY DEF UsageCallback, Release, ReleasedRow
  <1>2. clock \in Nat
    BY DEF TypeOK, Time
  <1>3. q.account \in Accounts
    BY DEF TypeOK, Request
  <1>4. CASE a \notin matches
    <2>1. \A t \in Nat : t >= clock' => LiveOf(rows', a, t) = LiveOf(rows, a, t)
      BY <1>1, <1>4 DEF LiveOf
    <2>2. DraftOK /\ clock' \in Nat /\ clock <= clock' /\ requests' \subseteq requests
      BY <1>1, <1>2
    <2> QED
      BY <1>2, <2>1, <2>2, FewerRequestsAreCovered
  <1>5. CASE a \in matches
    <2>1. a = q.account /\ matches = {a}
      BY <1>3, <1>5 DEF CallbackMatches, Isolated
    <2>2. matching = LiveOf(rows, a, clock)
      BY <2>1 DEF LiveOf
    <2> SUFFICES ASSUME NEW t \in Nat, t >= clock'
                 PROVE  Cardinality(RequestsAfter(a, t)') <= Cardinality(LiveOf(rows', a, t))
      BY DEF Covered
    <2>3. /\ \A u : IsFiniteSet(LiveOf(rows, a, u)) /\ Cardinality(LiveOf(rows, a, u)) \in Nat
          /\ \A u : IsFiniteSet(RequestsAfter(a, u)) /\ Cardinality(RequestsAfter(a, u)) \in Nat
      BY CountsAreNat
    <2>4. /\ Cardinality(RequestsAfter(a, t)) <= Cardinality(LiveOf(rows, a, t))
          /\ Cardinality(RequestsAfter(a, clock)) <= Cardinality(LiveOf(rows, a, clock))
      BY <1>1, <1>2 DEF Covered
    <2>5. RequestsAfter(a, t)' \subseteq RequestsAfter(a, t)
      BY <1>1 DEF RequestsAfter
    <2>6. /\ Cardinality(RequestsAfter(a, t)') <= Cardinality(RequestsAfter(a, t))
          /\ Cardinality(RequestsAfter(a, t)') \in Nat
      BY <2>3, <2>5, FS_Subset, FS_CardinalityType
    <2>7. CASE ReleasedRow(matching) \cap LiveOf(rows, a, t) = {}
      <3>1. LiveOf(rows', a, t) = LiveOf(rows, a, t)
        BY <1>1, <2>7 DEF LiveOf
      <3> QED
        BY <2>3, <2>4, <2>6, <3>1
    <2>8. ASSUME NEW r \in ReleasedRow(matching), r \in LiveOf(rows, a, t)
          PROVE  Cardinality(RequestsAfter(a, t)') <= Cardinality(LiveOf(rows', a, t))
      <3>1. r \in rows /\ r.account = a /\ r.expires > t
        BY <2>8 DEF LiveOf
      <3>2. \A s \in rows : s.created \in Int /\ s.id \in Int /\ s.expires = s.created + TTL
        BY DEF TypeOK, Reservation, Time, RequestInv
      <3>3. ASSUME NEW s \in matching PROVE r.created <= s.created
        <4>1. Older(r, s) /\ s \in rows
          BY <2>8 DEF ReleasedRow
        <4> QED
          BY <3>1, <3>2, <4>1 DEF Older
      <3>4. ASSUME NEW s \in matching PROVE s.expires > t
        <4>1. s \in rows
          OBVIOUS
        <4> QED
          BY <1>1, <3>1, <3>2, <3>3, <4>1
      <3>5. LiveOf(rows, a, t) = matching
        BY <1>1, <1>2, <2>2, <3>2, <3>4 DEF LiveOf
      <3>6. ReleasedRow(matching) = {r}
        <4>1. ASSUME NEW s \in ReleasedRow(matching) PROVE s = r
          <5>1. s \in rows /\ Older(s, r) /\ Older(r, s)
            BY <2>8, <4>1 DEF ReleasedRow
          <5> QED
            BY <3>1, <3>2, <5>1 DEF Older, TransactionInv
        <4> QED
          BY <2>8, <4>1
      <3>7. LiveOf(rows', a, t) = matching \ {r} /\ r \in matching
        BY <1>1, <2>8, <3>5, <3>6 DEF LiveOf
      <3>8. Cardinality(LiveOf(rows', a, t)) = Cardinality(matching) - 1
        <4>1. IsFiniteSet(matching)
          BY <2>2, <2>3
        <4> HIDE DEF matching
        <4>2. Cardinality(matching \ {r}) = Cardinality(matching) - 1
          BY <3>7, <4>1, FS_RemoveElement
        <4> QED
          BY <3>7, <4>2
      <3>9. /\ RequestsAfter(a, t)' \subseteq RequestsAfter(a, clock) \ {q}
            /\ q \in RequestsAfter(a, clock)
        BY <1>1, <1>2, <2>1 DEF RequestsAfter, RequestInv
      <3>10. /\ Cardinality(RequestsAfter(a, clock) \ {q}) = Cardinality(RequestsAfter(a, clock)) - 1
             /\ IsFiniteSet(RequestsAfter(a, clock) \ {q})
        BY <2>3, <3>9, FS_RemoveElement
      <3>11. Cardinality(RequestsAfter(a, t)') <= Cardinality(RequestsAfter(a, clock) \ {q})
        BY <3>9, <3>10, FS_Subset
      <3>12. /\ Cardinality(matching) = Cardinality(LiveOf(rows, a, clock))
             /\ Cardinality(matching) \in Nat /\ Cardinality(RequestsAfter(a, clock)) \in Nat
        BY <2>2, <2>3
      <3> QED
        BY <2>4, <2>6, <3>8, <3>10, <3>11, <3>12
    <2> QED
      BY <2>7, <2>8
  <1> QED
    BY <1>4, <1>5

\* A step that commits nothing adds neither row nor request; what it removes of the
\* rows no reader at the clock it leaves counts.
LEMMA QuietSteps ==
  ASSUME ProtocolInv, RequestInv, rows' \subseteq rows, requests' \subseteq requests,
         nextId' = nextId, clock \in Nat, clock' \in Nat, clock <= clock',
         \A q \in requests' : q.deadline > clock',
         \A a \in Accounts, t \in Nat : t >= clock' => LiveOf(rows', a, t) = LiveOf(rows, a, t)
  PROVE  RequestInv'
  <1>1. IsFiniteSet(requests')
    BY FS_Subset DEF RequestInv
  <1>2. /\ \A q \in requests' : q.id < nextId' /\ q.deadline > clock'
        /\ \A r \in rows' : r.expires = r.created + TTL
    BY DEF RequestInv
  <1>3. ASSUME NEW a \in Accounts, Isolated(a)
        PROVE  Covered(a)'
    <2>1. DraftOK /\ Covered(a)
      BY <1>3 DEF ProtocolInv, SafetyInv, RequestInv
    <2>2. \A t \in Nat : t >= clock' => LiveOf(rows', a, t) = LiveOf(rows, a, t)
      OBVIOUS
    <2> QED
      BY <2>1, <2>2, FewerRequestsAreCovered
  <1> QED
    BY <1>1, <1>2, <1>3 DEF RequestInv, Isolated

\* A commit: the new row expires a TTL after its creation, the new request has its id.
LEMMA CommitKeepsRequests ==
  ASSUME ProtocolInv, RequestInv, NEW p \in Pickers, CommitRows(p),
         \/ requests' = requests /\ nextId' \in {nextId, nextId + 1}
         \/ /\ chosen # None
            /\ nextId' = nextId + 1
            /\ requests' = requests \cup {[id |-> nextId, account |-> chosen,
                                           process |-> ProcessOf[p], deadline |-> now[p] + TTL]}
  PROVE  RequestInv'
  <1> USE ConstantsAssumption DEF ProtocolInv, SafetyInv
  <1> DEFINE new == [id |-> nextId, account |-> chosen, process |-> ProcessOf[p],
                     deadline |-> now[p] + TTL]
  <1>1. InTime(p) /\ Decided(p) /\ rows' = draft /\ clock' = clock
    BY DEF CommitRows, TransactionInv
  <1>2. clock \in Int /\ now[p] \in Int /\ nextId \in Int /\ \A q \in requests : q.id \in Int
    BY DEF TypeOK, Time, Request
  <1>3. now[p] + TTL > clock
    BY <1>1, <1>2 DEF InTime
  <1>4. IsFiniteSet(requests')
    <2>1. IsFiniteSet(requests) /\ IsFiniteSet(requests \cup {new})
      BY FS_AddElement DEF RequestInv
    <2> QED
      BY <2>1
  <1>5. requests' \subseteq requests \cup {new} /\ (requests' = requests \/ nextId' = nextId + 1)
    OBVIOUS
  <1>6. \A q \in requests' : q.id < nextId' /\ q.deadline > clock'
    BY <1>1, <1>2, <1>3, <1>5 DEF RequestInv
  <1>7. \A r \in rows' : r.expires = r.created + TTL
    BY <1>1 DEF Decided, Cleaned, Unexpired, Insertion, NewRow, RequestInv
  <1>8. ASSUME NEW a \in Accounts, Isolated(a)
        PROVE  Covered(a)'
    <2>1. Covered(a)
      BY <1>8 DEF RequestInv
    <2>2. requests' = requests \/ (chosen # None /\ requests' = requests \cup {new})
      OBVIOUS
    <2> QED
      BY <2>1, <2>2, CommitCovers
  <1> QED
    BY <1>4, <1>6, <1>7, <1>8 DEF RequestInv, Isolated

\* Every step keeps it, as long as every callback is that of a request and the host
\* ends its requests within the TTL.
LEMMA RequestStep ==
  Timely /\ ProtocolInv /\ RequestInv /\ [Next]_vars => RequestInv'
  <1> SUFFICES ASSUME Timely, ProtocolInv, RequestInv, [Next]_vars
               PROVE  RequestInv'
    OBVIOUS
  <1> USE ConstantsAssumption
  <1>1. clock \in Nat /\ clock <= clock
    BY DEF ProtocolInv, SafetyInv, TypeOK, Time
  <1>2. \A r \in rows : r.expires \in Int
    BY DEF ProtocolInv, SafetyInv, TypeOK, Time, Reservation
  <1>3. ASSUME rows' = rows, requests' \subseteq requests, nextId' = nextId, clock' = clock
        PROVE  RequestInv'
    BY <1>1, <1>3, QuietSteps DEF RequestInv
  <1>4. ASSUME NEW p \in Pickers, Pick(p)
        PROVE  RequestInv'
    <2>1. ASSUME NEW dispatched, CommitGrant(p, dispatched)
          PROVE  RequestInv'
      <3>1. CASE dispatched
        BY <2>1, <3>1, CommitKeepsRequests DEF CommitGrant
      <3>2. CASE ~dispatched
        BY <2>1, <3>2, CommitKeepsRequests DEF CommitGrant
      <3> QED
        BY <3>1, <3>2
    <2>2. CASE CommitReject(p)
      BY <2>2, CommitKeepsRequests DEF CommitReject
    <2>3. CASE UNCHANGED << rows, nextId, clock, requests >>
      BY <1>3, <2>3
    <2> QED
      BY <1>4, <2>1, <2>2, <2>3
         DEF Pick, StartPick, TakePickMu, BeginImmediate, Decide, PickFails, PickTimesOut, Abandon
  <1>5. ASSUME NEW q \in requests, NEW matches \in CallbackMatches(q.account),
               UsageCallback(q, matches)
        PROVE  RequestInv'
    <2>1. /\ rows' \subseteq rows /\ requests' \subseteq requests
          /\ nextId' = nextId /\ clock' = clock
      BY <1>5 DEF UsageCallback, Release
    <2>2. IsFiniteSet(requests')
      BY <2>1, FS_Subset DEF RequestInv
    <2>3. \A a \in Accounts : Isolated(a) => Covered(a)'
      BY <1>5, CallbackCovers DEF RequestInv
    <2> QED
      BY <2>1, <2>2, <2>3 DEF RequestInv, Isolated
  <1>6. ASSUME NEW q \in requests, CallbackLost(q)
        PROVE  RequestInv'
    BY <1>3, <1>6 DEF CallbackLost
  <1>7. ASSUME NEW matches, StrayCallback(matches)
        PROVE  RequestInv'
    BY <1>7 DEF StrayCallback, Timely
  <1>8. ASSUME NEW t \in Time, SummaryCleanup(t)
        PROVE  RequestInv'
    <2>1. /\ rows' = Unexpired(rows, t) /\ requests' = requests /\ nextId' = nextId
          /\ clock' = clock /\ t <= clock /\ t \in Int
      BY <1>8 DEF SummaryCleanup, Time
    <2>2. \A a \in Accounts, u \in Nat : u >= clock' => LiveOf(rows', a, u) = LiveOf(rows, a, u)
      BY <1>1, <1>2, <2>1, CleanupIsUnseen
    <2>3. rows' \subseteq rows
      BY <2>1 DEF Unexpired
    <2> QED
      BY <1>1, <2>1, <2>2, <2>3, QuietSteps DEF RequestInv
  <1>9. ASSUME Tick
        PROVE  RequestInv'
    <2>1. /\ rows' = rows /\ requests' = requests /\ nextId' = nextId /\ clock' = clock + 1
          /\ \A q \in requests : clock + 1 < q.deadline + Overrun
      BY <1>9 DEF Tick
    <2>2. \A q \in requests : q.deadline \in Int
      BY DEF ProtocolInv, SafetyInv, TypeOK, Request, Time
    <2>3. \A q \in requests' : q.deadline > clock'
      BY <1>1, <2>1, <2>2 DEF Timely
    <2> QED
      BY <1>1, <2>1, <2>3, QuietSteps
  <1>10. ASSUME NEW m \in Processes, Crash(m)
         PROVE  RequestInv'
    BY <1>3, <1>10 DEF Crash
  <1>11. ASSUME UNCHANGED vars
         PROVE  RequestInv'
    BY <1>3, <1>11 DEF vars
  <1> QED
    BY <1>4, <1>5, <1>6, <1>7, <1>8, <1>9, <1>10, <1>11 DEF Next, RequestEnds

\* Nothing runs, and nothing is counted, at the start.
LEMMA RequestInit == Init => RequestInv
  <1> SUFFICES ASSUME Init PROVE RequestInv
    OBVIOUS
  <1>1. rows = {} /\ requests = {}
    BY DEF Init
  <1>2. \A a, t : RequestsAfter(a, t) = {} /\ LiveOf(rows, a, t) = {}
    BY <1>1 DEF RequestsAfter, LiveOf
  <1>3. \A a : Covered(a)
    BY <1>2, FS_EmptySet DEF Covered
  <1> QED
    BY <1>1, <1>3, FS_EmptySet DEF RequestInv

\* The requests of an isolated account that still run are all covered by counted rows.
LEMMA IsolatedWithinLimit ==
  ASSUME ProtocolInv, RequestInv, NEW a \in Accounts, Isolated(a)
  PROVE  Cardinality({q \in requests : q.account = a}) <= Capacity[a]
  <1> USE ConstantsAssumption DEF ProtocolInv, SafetyInv
  <1>1. clock \in Nat /\ clock >= clock
    BY DEF TypeOK, Time
  <1>2. {q \in requests : q.account = a} = RequestsAfter(a, clock)
    BY DEF RequestsAfter, RequestInv
  <1>3. Cardinality(RequestsAfter(a, clock)) <= Cardinality(LiveOf(rows, a, clock))
    BY <1>1 DEF RequestInv, Covered
  <1>4. Cardinality(LiveOf(rows, a, clock)) <= Capacity[a]
    BY DEF HardLimit
  <1>5. /\ Cardinality(RequestsAfter(a, clock)) \in Nat
        /\ Cardinality(LiveOf(rows, a, clock)) \in Nat /\ Capacity[a] \in Nat
    BY CountsAreNat
  <1>6. Cardinality(RequestsAfter(a, clock)) <= Capacity[a]
    BY <1>3, <1>4, <1>5
  <1> QED
    BY <1>2, <1>6

\* The part of RequestsWithinLimit that an alias shared by two other accounts leaves.
IsolatedRequestsWithinLimit ==
  \A a \in Accounts : Isolated(a) =>
    Cardinality({q \in requests : q.account = a}) <= Capacity[a]

\* A callback may release the reservation of another request of the account, a lost one
\* leaves its reservation behind, a pick the host gave up on too: in no order of these do
\* the requests that really run exceed the limit of an account that shares no alias, when
\* callbacks belong to requests and no request outlives the TTL of its reservation.
THEOREM IsolatedRequestsStayWithinLimit ==
  ASSUME ~StrayCallbacks, Overrun = 0
  PROVE  Spec => []IsolatedRequestsWithinLimit
  <1>1. Timely
    BY DEF Timely
  <1>2. Init => RequestInv
    BY RequestInit
  <1>3. ProtocolInv /\ RequestInv /\ [Next]_vars => RequestInv'
    BY <1>1, RequestStep
  <1>4. ProtocolInv /\ RequestInv => IsolatedRequestsWithinLimit
    BY IsolatedWithinLimit DEF IsolatedRequestsWithinLimit
  <1>5. ProtocolInv <=> SafetyInv /\ TransactionInv
    BY DEF ProtocolInv
  <1> QED
    BY TransactionInvariant, <1>2, <1>3, <1>4, <1>5, PTL DEF Spec

\* With no alias shared between any two accounts, it is the limit of every account.
THEOREM RequestsStayWithinLimit ==
  ASSUME ~StrayCallbacks, Overrun = 0, \A a \in Accounts : Isolated(a)
  PROVE  Spec => []RequestsWithinLimit
  <1>1. Spec => []IsolatedRequestsWithinLimit
    BY IsolatedRequestsStayWithinLimit
  <1>2. IsolatedRequestsWithinLimit => RequestsWithinLimit
    BY DEF IsolatedRequestsWithinLimit, RequestsWithinLimit
  <1> QED
    BY <1>1, <1>2, PTL

=============================================================================
