--------------------------- MODULE SelectionProofs ---------------------------
(***************************************************************************)
(* Proofs about Selection, for any requests, candidates, priorities,       *)
(* limits and bounds of the two maps, and any number of concurrent picks.  *)
(***************************************************************************)
EXTENDS Selection, FiniteSetTheorems, TLAPS

(* The two maps                                                            *)

\* A map with at most n keys.
BoundedBy(f, n) == IsFiniteSet(DOMAIN f) /\ Cardinality(DOMAIN f) <= n
Bounded == BoundedBy(cursors, MaxCursors) /\ BoundedBy(bindings, MaxBindings)

\* Removing keys keeps a map within its bound.
LEMMA WithoutBounded ==
  ASSUME NEW f, NEW ks, NEW n \in Nat, BoundedBy(f, n)
  PROVE  BoundedBy(Without(f, ks), n) /\ DOMAIN Without(f, ks) = DOMAIN f \ ks
  <1>1. DOMAIN Without(f, ks) = DOMAIN f \ ks
    BY DEF Without, Restrict
  <1>2. IsFiniteSet(DOMAIN f \ ks) /\ Cardinality(DOMAIN f \ ks) <= Cardinality(DOMAIN f)
    BY FS_Subset DEF BoundedBy
  <1>3. Cardinality(DOMAIN f) \in Nat /\ Cardinality(DOMAIN f \ ks) \in Nat
    BY <1>2, FS_CardinalityType DEF BoundedBy
  <1> QED
    BY <1>1, <1>2, <1>3 DEF BoundedBy

\* Removing a key that is there makes room for one.
LEMMA WithoutOneHasRoom ==
  ASSUME NEW f, NEW n \in Nat \ {0}, BoundedBy(f, n), NEW k \in DOMAIN f
  PROVE  BoundedBy(Without(f, {k}), n - 1)
  <1>1. DOMAIN Without(f, {k}) = DOMAIN f \ {k}
    BY DEF Without, Restrict
  <1>2. /\ IsFiniteSet(DOMAIN f \ {k})
        /\ Cardinality(DOMAIN f \ {k}) = Cardinality(DOMAIN f) - 1
    BY FS_RemoveElement DEF BoundedBy
  <1>3. Cardinality(DOMAIN f) \in Nat
    BY FS_CardinalityType DEF BoundedBy
  <1> QED
    BY <1>1, <1>2, <1>3 DEF BoundedBy

\* A map with room takes one more key.
LEMMA InsertBounded ==
  ASSUME NEW f, NEW g, NEW key, NEW n \in Nat \ {0}, BoundedBy(f, n - 1),
         DOMAIN g = DOMAIN f \cup {key}
  PROVE  BoundedBy(g, n)
  <1>1. /\ IsFiniteSet(DOMAIN f \cup {key})
        /\ Cardinality(DOMAIN f \cup {key}) <= Cardinality(DOMAIN f) + 1
    <2>1. CASE key \in DOMAIN f
      <3>1. DOMAIN f \cup {key} = DOMAIN f
        BY <2>1
      <3>2. Cardinality(DOMAIN f) \in Nat
        BY FS_CardinalityType DEF BoundedBy
      <3> QED
        BY <3>1, <3>2 DEF BoundedBy
    <2>2. CASE key \notin DOMAIN f
      <3>1. Cardinality(DOMAIN f) \in Nat
        BY FS_CardinalityType DEF BoundedBy
      <3>2. /\ IsFiniteSet(DOMAIN f \cup {key})
            /\ Cardinality(DOMAIN f \cup {key}) = Cardinality(DOMAIN f) + 1
        BY <2>2, FS_AddElement DEF BoundedBy
      <3> QED
        BY <3>1, <3>2
    <2> QED
      BY <2>1, <2>2
  <1>2. Cardinality(DOMAIN f) \in Nat /\ Cardinality(DOMAIN f \cup {key}) \in Nat
    BY <1>1, FS_CardinalityType DEF BoundedBy
  <1> QED
    BY <1>1, <1>2 DEF BoundedBy

\* A key that is there, or that finds room, is inserted within the bound.
LEMMA PutBounded ==
  ASSUME NEW f, NEW g, NEW key, NEW n \in Nat \ {0}, BoundedBy(f, n),
         key \in DOMAIN f \/ Cardinality(DOMAIN f) < n,
         DOMAIN g = DOMAIN f \cup {key}
  PROVE  BoundedBy(g, n)
  <1>1. CASE key \in DOMAIN f
    <2>1. DOMAIN g = DOMAIN f
      BY <1>1
    <2> QED
      BY <2>1 DEF BoundedBy
  <1>2. CASE Cardinality(DOMAIN f) < n
    <2>1. Cardinality(DOMAIN f) \in Nat
      BY FS_CardinalityType DEF BoundedBy
    <2>2. BoundedBy(f, n - 1)
      BY <1>2, <2>1 DEF BoundedBy
    <2> QED
      BY <2>2, InsertBounded
  <1> QED
    BY <1>1, <1>2

USE SelectionAssumption

\* pickRotated prunes before it inserts a cursor into a full map.
LEMMA RotateBounded ==
  ASSUME NEW key, NEW S, NEW c, BoundedBy(cursors, MaxCursors), Rotate(key, S, c)
  PROVE  BoundedBy(cursors', MaxCursors)
  <1> DEFINE live == Without(cursors, Stale(cursors))
             known == key \in DOMAIN cursors
             crowded == ~known /\ Cardinality(DOMAIN cursors) >= MaxCursors
  <1>1. PICK kept \in IF crowded THEN Pruned(TRUE)
                      ELSE IF operations' = 0 THEN Pruned(FALSE) ELSE {cursors} :
               DOMAIN cursors' = DOMAIN kept \cup {key}
    BY DEF Rotate
  <1>2. BoundedBy(live, MaxCursors) /\ DOMAIN live \subseteq DOMAIN cursors
    BY WithoutBounded
  <1>3. Cardinality(DOMAIN cursors) \in Nat /\ Cardinality(DOMAIN live) \in Nat
    BY <1>2, FS_CardinalityType DEF BoundedBy
  <1>4. CASE crowded
    <2>1. CASE Cardinality(DOMAIN live) >= MaxCursors
      <3>1. PICK k \in Oldest(live) : kept = Without(live, {k})
        BY <1>1, <1>4, <2>1 DEF Pruned
      <3>2. k \in DOMAIN live
        BY <3>1 DEF Oldest
      <3>3. BoundedBy(kept, MaxCursors - 1)
        BY <1>2, <3>1, <3>2, WithoutOneHasRoom
      <3> QED
        BY <1>1, <3>3, InsertBounded
    <2>2. CASE Cardinality(DOMAIN live) < MaxCursors
      <3>1. kept = live
        BY <1>1, <1>3, <1>4, <2>2 DEF Pruned
      <3> HIDE DEF live
      <3> QED
        BY <1>1, <1>2, <2>2, <3>1, PutBounded
    <2> QED
      BY <1>3, <2>1, <2>2
  <1>5. CASE ~crowded
    <2>1. kept \in {live, cursors}
      BY <1>1, <1>5 DEF Pruned
    <2>2. CASE known
      <3>1. DOMAIN cursors' \subseteq DOMAIN cursors
        BY <1>1, <1>2, <2>1, <2>2
      <3>2. /\ IsFiniteSet(DOMAIN cursors')
            /\ Cardinality(DOMAIN cursors') <= Cardinality(DOMAIN cursors)
        BY <3>1, FS_Subset DEF BoundedBy
      <3>3. Cardinality(DOMAIN cursors') \in Nat
        BY <3>2, FS_CardinalityType
      <3> QED
        BY <1>3, <3>2, <3>3 DEF BoundedBy
    <2>3. CASE ~known
      <3>1. Cardinality(DOMAIN cursors) < MaxCursors
        BY <1>3, <1>5, <2>3
      <3>2. Cardinality(DOMAIN live) < MaxCursors
        <4>1. Cardinality(DOMAIN live) <= Cardinality(DOMAIN cursors)
          BY <1>2, FS_Subset DEF BoundedBy
        <4> QED
          BY <1>3, <3>1, <4>1
      <3>3. BoundedBy(kept, MaxCursors) /\ Cardinality(DOMAIN kept) < MaxCursors
        BY <1>2, <2>1, <3>1, <3>2
      <3> QED
        BY <1>1, <3>3, PutBounded
    <2> QED
      BY <2>2, <2>3
  <1> QED
    BY <1>4, <1>5

\* Looking a session up refreshes its binding or drops it.
LEMMA LookedUpBounded ==
  ASSUME NEW b, NEW key, NEW S, BoundedBy(b, MaxBindings)
  PROVE  BoundedBy(LookedUp(b, key, S), MaxBindings)
  <1>1. CASE Binds(b, key, S)
    <2>1. DOMAIN LookedUp(b, key, S) = DOMAIN b \cup {key} /\ key \in DOMAIN b
      BY <1>1 DEF LookedUp, Bind, Binds
    <2> QED
      BY <2>1, PutBounded
  <1>2. CASE ~Binds(b, key, S)
    BY <1>2, WithoutBounded DEF LookedUp
  <1> QED
    BY <1>1, <1>2

\* evictOneLocked leaves room for a binding.
LEMMA EvictedHasRoom ==
  ASSUME NEW b, BoundedBy(b, MaxBindings), NEW kept \in Evicted(b)
  PROVE  BoundedBy(kept, MaxBindings - 1)
  <1>1. Cardinality(DOMAIN b) \in Nat
    BY FS_CardinalityType DEF BoundedBy
  <1>2. CASE Cardinality(DOMAIN b) < MaxBindings
    <2>1. kept = b
      BY <1>2 DEF Evicted
    <2> QED
      BY <1>1, <1>2, <2>1 DEF BoundedBy
  <1>3. CASE ~(Cardinality(DOMAIN b) < MaxBindings)
    <2>1. PICK k \in DOMAIN b : kept = Without(b, {k})
      BY <1>3 DEF Evicted
    <2> QED
      BY <2>1, WithoutOneHasRoom
  <1> QED
    BY <1>2, <1>3

\* pickOrBind keeps both maps within their bounds.
LEMMA PickOrBindBounded ==
  ASSUME NEW b, NEW key, NEW cursor, NEW S, NEW c,
         BoundedBy(cursors, MaxCursors), BoundedBy(b, MaxBindings),
         PickOrBind(b, key, cursor, S, c)
  PROVE  Bounded'
  <1>1. CASE Binds(b, key, S)
    <2>1. bindings' = LookedUp(b, key, S) /\ cursors' = cursors
      BY <1>1 DEF PickOrBind
    <2>2. BoundedBy(bindings', MaxBindings)
      BY <2>1, LookedUpBounded
    <2>3. BoundedBy(cursors', MaxCursors)
      BY <2>1
    <2> QED
      BY <2>2, <2>3 DEF Bounded, BoundedBy
  <1>2. CASE ~Binds(b, key, S)
    <2>1. BoundedBy(cursors', MaxCursors)
      <3>1. Rotate(cursor, S, c)
        BY <1>2 DEF PickOrBind
      <3> QED
        BY <3>1, RotateBounded
    <2>2. BoundedBy(bindings', MaxBindings)
      <3>1. CASE key = None
        BY <1>2, <3>1 DEF PickOrBind
      <3>2. CASE key # None
        <4>1. PICK kept \in Evicted(Without(b, {key})) : bindings' = Bind(kept, key, c)
          BY <1>2, <3>2 DEF PickOrBind
        <4>2. BoundedBy(Without(b, {key}), MaxBindings)
          BY WithoutBounded
        <4>3. BoundedBy(kept, MaxBindings - 1)
          BY <4>1, <4>2, EvictedHasRoom
        <4>4. DOMAIN bindings' = DOMAIN kept \cup {key}
          BY <4>1 DEF Bind
        <4> QED
          BY <4>3, <4>4, InsertBounded
      <3> QED
        BY <3>1, <3>2
    <2> QED
      BY <2>1, <2>2 DEF Bounded, BoundedBy
  <1> QED
    BY <1>1, <1>2

LEMMA BoundedInit == Init => Bounded
  <1> SUFFICES ASSUME Init PROVE Bounded
    OBVIOUS
  <1>1. DOMAIN cursors = {} /\ DOMAIN bindings = {}
    BY DEF Init
  <1>2. IsFiniteSet({}) /\ Cardinality({}) = 0
    BY FS_EmptySet
  <1> QED
    BY <1>1, <1>2 DEF Bounded, BoundedBy

\* Only these steps of a pick touch the maps; a reconfiguration forgets the bindings.
LEMMA BoundedStep == Bounded /\ [Next]_vars => Bounded'
  <1> SUFFICES ASSUME Bounded, [Next]_vars
               PROVE  Bounded'
    OBVIOUS
  <1>1. ASSUME UNCHANGED << bindings, cursors >>
        PROVE  Bounded'
    BY <1>1 DEF Bounded, BoundedBy
  <1>2. BoundedBy(cursors, MaxCursors) /\ BoundedBy(bindings, MaxBindings)
    BY DEF Bounded
  <1>3. ASSUME NEW p \in Pickers, Choose(p)
        PROVE  Bounded'
    <2>1. PICK c : PickOrBind(bindings, AffinityKey(request[p]), Cursor(request[p], "all"),
                              Top(remaining[p]), c)
      BY <1>3 DEF Choose
    <2> QED
      BY <1>2, <2>1, PickOrBindBounded
  <1>4. ASSUME NEW p \in Pickers, Reserve(p)
        PROVE  Bounded'
    <2>1. \/ UNCHANGED << bindings, cursors >>
          \/ \E key, cursor, T, c : PickOrBind(bindings, key, cursor, T, c)
      BY <1>4 DEF Reserve, ProtectedChoice, shared
    <2> QED
      BY <1>1, <1>2, <2>1, PickOrBindBounded
  <1>5. ASSUME NEW p \in Pickers, LookUp(p)
        PROVE  Bounded'
    <2>1. \/ bindings' = bindings
          \/ \E key, S : bindings' = LookedUp(bindings, key, S)
      BY <1>5 DEF LookUp
    <2>2. BoundedBy(bindings', MaxBindings)
      BY <1>2, <2>1, LookedUpBounded
    <2>3. cursors' = cursors
      BY <1>5 DEF LookUp
    <2> QED
      BY <1>2, <2>2, <2>3 DEF Bounded, BoundedBy
  <1>6. ASSUME NEW p \in Pickers, Pick(p)
        PROVE  Bounded'
    <2>1. Prepare(p) \/ Filter(p) \/ Saturate(p) \/ PickFails(p) \/ EndPick(p) =>
            UNCHANGED << bindings, cursors >>
      BY DEF Prepare, Filter, Saturate, PickFails, EndPick, shared
    <2> QED
      BY <1>1, <1>3, <1>4, <1>5, <1>6, <2>1 DEF Pick
  <1>7. ASSUME NEW enabled \in BOOLEAN, Reconfigure(enabled)
        PROVE  Bounded'
    <2>1. DOMAIN bindings' = {} /\ cursors' = cursors
      BY <1>7 DEF Reconfigure
    <2>2. IsFiniteSet({}) /\ Cardinality({}) = 0
      BY FS_EmptySet
    <2> QED
      BY <1>2, <2>1, <2>2 DEF Bounded, BoundedBy
  <1>8. ASSUME \/ \E p \in Pickers, req \in Requests : StartPick(p, req)
               \/ \E c \in Codex : Release(c) \/ ChangeUsage(c)
               \/ \E row \in Rows : ChangeRestriction(row)
               \/ \E name \in Names : ChangeQuarantine(name)
               \/ Tick \/ UNCHANGED vars
        PROVE  UNCHANGED << bindings, cursors >>
    BY <1>8 DEF StartPick, Release, ChangeUsage, ChangeRestriction, ChangeQuarantine, Tick, vars, shared
  <1> QED
    BY <1>1, <1>6, <1>7, <1>8 DEF Next

\* However many sessions, routes and concurrent picks there are, the cursors and
\* the bindings stay within schedulerRotationMaxCursors and schedulerAffinityMaxBindings.
THEOREM MapsStayBounded == Spec => []MapsBounded
  <1>1. Bounded => MapsBounded
    BY DEF Bounded, BoundedBy, MapsBounded
  <1> QED
    BY <1>1, BoundedInit, BoundedStep, PTL DEF Spec

(* What a pick knows                                                       *)

\* Every candidate that passed the filters and is not considered any more was
\* found full; a pick that nothing was removed from still has what the host sent.
PickKnows(p) ==
  /\ remaining[p] \subseteq available[p]
  /\ pc[p] # "idle" => request[p] \in Requests
  /\ pc[p] \in {"idle", "prepare"} => available[p] = {}
  /\ pc[p] \in {"idle", "prepare", "filter", "forced"} => p \notin protects
  /\ pc[p] = "filter" => remaining[p] = request[p].offered /\ available[p] = request[p].offered
  /\ pc[p] \in {"choose", "protect", "decide"} => available[p] \ remaining[p] \subseteq full[p]

\* What DelegatesOnlyUnfiltered, SaturationIsTotal and ReturnsBestAvailable say of p.
Answered(p) ==
  /\ pc[p] = "delegated" => available[p] = request[p].offered /\ p \notin protects
  /\ pc[p] = "saturated" => available[p] \subseteq full[p]
  /\ pc[p] = "returned" =>
       /\ chosen[p] \in available[p]
       /\ \A d \in available[p] : Priority[d] > Priority[chosen[p]] =>
            d \in full[p] \/ (d \in sunk[p] /\ chosen[p] \notin sunk[p])

PickInv(p) == PickKnows(p) /\ Answered(p)
IInv == TypeOK /\ \A p \in Pickers : PickInv(p)

LEMMA IInvInit == Init => IInv
  <1> SUFFICES ASSUME Init PROVE IInv
    OBVIOUS
  <1>1. TypeOK
    BY DEF Init, TypeOK
  <1>2. ASSUME NEW p \in Pickers PROVE PickInv(p)
    BY DEF Init, PickInv, PickKnows, Answered
  <1> QED
    BY <1>1, <1>2 DEF IInv

\* A step of another pick leaves what this one knows alone.
LEMMA OthersKeep ==
  ASSUME IInv, NEW q \in Pickers,
         pc'[q] = pc[q], request'[q] = request[q], remaining'[q] = remaining[q],
         available'[q] = available[q], (q \in protects') <=> (q \in protects),
         chosen'[q] = chosen[q], full'[q] = full[q], sunk'[q] = sunk[q]
  PROVE  PickInv(q)'
  BY DEF IInv, PickInv, PickKnows, Answered

LEMMA StartPickKeeps ==
  ASSUME IInv, NEW p \in Pickers, NEW req \in Requests, StartPick(p, req)
  PROVE  IInv'
  <1>1. TypeOK'
    BY DEF IInv, TypeOK, StartPick, Goto, filters
  <1>2. PickInv(p)'
    BY DEF IInv, TypeOK, PickInv, PickKnows, Answered, StartPick, Goto
  <1>3. ASSUME NEW q \in Pickers, q # p PROVE PickInv(q)'
    BY <1>3, OthersKeep DEF IInv, TypeOK, StartPick, Goto
  <1> QED
    BY <1>1, <1>2, <1>3 DEF IInv

LEMMA PrepareKeeps ==
  ASSUME IInv, NEW p \in Pickers, Prepare(p)
  PROVE  IInv'
  <1> DEFINE req == request[p]
  <1>1. /\ pc[p] = "prepare" /\ req \in Requests /\ available[p] = {} /\ remaining[p] = {}
        /\ p \notin protects
    BY DEF IInv, PickInv, PickKnows, Prepare
  <1>2. Kept(req) \subseteq req.offered /\ req.offered \subseteq Candidates
    BY <1>1 DEF Kept
  <1>3. /\ UNCHANGED << request, protects, chosen, bound, full, sunk, demoted >>
        /\ \/ Goto(p, "rejected") /\ UNCHANGED << remaining, available >>
           \/ Goto(p, "delegated") /\ req.offered = {} /\ UNCHANGED << remaining, available >>
           \/ /\ \/ Goto(p, "forced")
                 \/ Goto(p, "filter") /\ Kept(req) = req.offered
              /\ remaining' = [remaining EXCEPT ![p] = Kept(req)]
              /\ available' = [available EXCEPT ![p] = Kept(req)]
    BY DEF Prepare, Stays, filters, Forced
  <1> HIDE DEF req
  <1>4. TypeOK'
    BY <1>2, <1>3 DEF IInv, TypeOK, Goto, Ended
  <1>5. PickInv(p)'
    <2>1. request'[p] = req
      BY <1>3 DEF req
    <2>2. \/ pc'[p] \in {"rejected", "delegated"} /\ remaining'[p] = {} /\ available'[p] = {}
             /\ (pc'[p] = "delegated" => req.offered = {})
          \/ pc'[p] \in {"forced", "filter"} /\ remaining'[p] = Kept(req) /\ available'[p] = Kept(req)
             /\ (pc'[p] = "filter" => Kept(req) = req.offered)
      BY <1>1, <1>3 DEF IInv, TypeOK, Goto
    <2> QED
      BY <1>1, <1>3, <2>1, <2>2 DEF PickInv, PickKnows, Answered
  <1>6. ASSUME NEW q \in Pickers, q # p PROVE PickInv(q)'
    BY <1>3, <1>6, OthersKeep DEF IInv, TypeOK, Goto
  <1> QED
    BY <1>4, <1>5, <1>6 DEF IInv

LEMMA FilterKeeps ==
  ASSUME IInv, NEW p \in Pickers, Filter(p)
  PROVE  IInv'
  <1> DEFINE rest == Unrestricted(remaining[p])
             protect == protection /\ remaining[p] \cap Codex # {}
  <1>1. /\ pc[p] \in {"filter", "forced"} /\ request[p] \in Requests /\ p \notin protects
        /\ pc[p] = "filter" => remaining[p] = request[p].offered
    BY DEF IInv, PickInv, PickKnows, Filter
  <1>2. rest \subseteq Candidates
    BY DEF IInv, TypeOK, Unrestricted
  <1>3. /\ UNCHANGED << request, chosen, bound, full, sunk, demoted >>
        /\ remaining' = [remaining EXCEPT ![p] = rest]
        /\ available' = [available EXCEPT ![p] = rest]
        /\ protects' = IF protect THEN protects \cup {p} ELSE protects
        /\ \/ Goto(p, "delegated") /\ pc[p] = "filter" /\ rest = remaining[p] /\ ~protect
           \/ Goto(p, "rejected") \/ Goto(p, "protect") \/ Goto(p, "choose")
    BY DEF Filter, Stays, filters
  <1> HIDE DEF rest, protect
  <1>4. TypeOK'
    BY <1>2, <1>3 DEF IInv, TypeOK, Goto, Ended
  <1>5. PickInv(p)'
    BY <1>1, <1>2, <1>3 DEF IInv, TypeOK, PickInv, PickKnows, Answered, Goto
  <1>6. ASSUME NEW q \in Pickers, q # p PROVE PickInv(q)'
    BY <1>3, <1>6, OthersKeep DEF IInv, TypeOK, Goto
  <1> QED
    BY <1>4, <1>5, <1>6 DEF IInv

\* Only candidates of the highest tier are chosen from.
LEMMA ChooseKeeps ==
  ASSUME IInv, NEW p \in Pickers, Choose(p)
  PROVE  IInv'
  <1>1. PICK c \in Top(remaining[p]) :
          IF p \in protects /\ c \in Codex
            THEN Goto(p, "protect") /\ UNCHANGED chosen
            ELSE Goto(p, "returned") /\ chosen' = [chosen EXCEPT ![p] = c]
    BY DEF Choose, Returns
  <1>2. /\ pc[p] = "choose" /\ request[p] \in Requests
        /\ remaining[p] \subseteq available[p] /\ available[p] \ remaining[p] \subseteq full[p]
        /\ UNCHANGED << request, remaining, available, protects, bound, full, sunk, demoted >>
    BY DEF IInv, PickInv, PickKnows, Choose, Stays, filters
  <1>3. c \in remaining[p] /\ \A d \in remaining[p] : Priority[d] <= Priority[c]
    BY DEF Top
  <1>4. available[p] \subseteq Candidates /\ c \in Candidates
    BY <1>2, <1>3 DEF IInv, TypeOK
  <1>5. \A d \in available[p] : Priority[d] > Priority[c] => d \in full[p]
    <2> SUFFICES ASSUME NEW d \in available[p], d \notin full[p]
                 PROVE  ~(Priority[d] > Priority[c])
      OBVIOUS
    <2>1. d \in remaining[p]
      BY <1>2
    <2>2. Priority[d] \in Int /\ Priority[c] \in Int
      BY <1>4
    <2> QED
      BY <1>3, <2>1, <2>2
  <1>6. TypeOK'
    BY <1>1, <1>2, <1>4 DEF IInv, TypeOK, Goto, Ended
  <1>7. PickInv(p)'
    <2>1. CASE p \in protects /\ c \in Codex
      BY <1>1, <1>2, <2>1 DEF IInv, TypeOK, PickInv, PickKnows, Answered, Goto
    <2>2. CASE ~(p \in protects /\ c \in Codex)
      <3>1. pc'[p] = "returned" /\ chosen'[p] = c
        BY <1>1, <2>2 DEF IInv, TypeOK, Goto
      <3> QED
        BY <1>2, <1>3, <1>5, <3>1 DEF PickInv, PickKnows, Answered
    <2> QED
      BY <2>1, <2>2
  <1>8. ASSUME NEW q \in Pickers, q # p PROVE PickInv(q)'
    BY <1>1, <1>2, <1>8, OthersKeep DEF IInv, TypeOK, Goto
  <1> QED
    BY <1>6, <1>7, <1>8 DEF IInv

\* What is read under the locks only adds to the candidates found full.
LEMMA LookUpKeeps ==
  ASSUME IInv, NEW p \in Pickers, LookUp(p)
  PROVE  IInv'
  <1> DEFINE S == Protected(p)
             found == IF Binds(bindings, AffinityKey(request[p]), S)
                        THEN {bindings[AffinityKey(request[p])].candidate} ELSE {}
  <1>1. /\ pc[p] = "protect" /\ Goto(p, "decide")
        /\ UNCHANGED << request, remaining, available, protects, chosen, demoted >>
        /\ bound' = [bound EXCEPT ![p] = found]
        /\ full' = [full EXCEPT ![p] = @ \cup {c \in S : ~HasRoom(c)}]
        /\ sunk' = [sunk EXCEPT ![p] = demoted]
    BY DEF LookUp, Stays, filters
  <1>2. S \subseteq Candidates /\ found \subseteq S
    BY DEF IInv, TypeOK, Protected, Top, Binds
  <1> HIDE DEF S, found
  <1>3. TypeOK'
    BY <1>1, <1>2 DEF IInv, TypeOK, Goto
  <1>4. PickInv(p)'
    <2>1. /\ pc'[p] = "decide" /\ full[p] \subseteq full'[p]
          /\ available'[p] = available[p] /\ remaining'[p] = remaining[p] /\ request'[p] = request[p]
      BY <1>1 DEF IInv, TypeOK, Goto
    <2> QED
      BY <1>1, <2>1 DEF IInv, PickInv, PickKnows, Answered
  <1>5. ASSUME NEW q \in Pickers, q # p PROVE PickInv(q)'
    BY <1>1, <1>5, OthersKeep DEF IInv, TypeOK, Goto
  <1> QED
    BY <1>3, <1>4, <1>5 DEF IInv

\* The candidate reserved had room, and nothing with room is in a higher tier
\* unless it is demoted and the one reserved is not.
LEMMA ReserveKeeps ==
  ASSUME IInv, NEW p \in Pickers, Reserve(p)
  PROVE  IInv'
  <1>1. PICK c \in Room(p) :
          /\ ProtectedChoice(p, c)
          /\ \/ Goto(p, "returned") /\ chosen' = [chosen EXCEPT ![p] = c]
             \/ Goto(p, "failed") /\ UNCHANGED chosen
    BY DEF Reserve, Returns
  <1>2. /\ pc[p] = "decide" /\ request[p] \in Requests
        /\ remaining[p] \subseteq available[p] /\ available[p] \ remaining[p] \subseteq full[p]
        /\ UNCHANGED << request, remaining, available, protects, bound, full, sunk, demoted >>
    BY DEF IInv, PickInv, PickKnows, Reserve, filters
  <1>3. Protected(p) \subseteq remaining[p] /\ remaining[p] \subseteq Candidates
        /\ available[p] \subseteq Candidates
    BY DEF IInv, TypeOK, Protected, Top
  <1>4. c \in Protected(p) /\ c \in remaining[p] /\ c \in available[p] /\ c \in Candidates
    BY <1>2, <1>3 DEF Room
  <1>5. ASSUME NEW d \in available[p], Priority[d] > Priority[c], d \notin full[p]
        PROVE  d \in sunk[p] /\ c \notin sunk[p]
    <2>1. d \in remaining[p] /\ Priority[d] \in Int /\ Priority[c] \in Int
      BY <1>2, <1>3, <1>4, <1>5
    <2>2. d \in Protected(p)
      <3>1. CASE Mixed(request[p])
        <4>1. c \in Top(remaining[p])
          BY <1>4, <3>1 DEF Protected
        <4> QED
          BY <1>5, <2>1, <4>1 DEF Top
      <3>2. CASE ~Mixed(request[p])
        BY <2>1, <3>2 DEF Protected
      <3> QED
        BY <3>1, <3>2
    <2>3. d \in Room(p)
      BY <1>5, <2>2 DEF Room
    <2> DEFINE normal == Room(p) \ sunk[p]
               eligible == IF normal # {} THEN normal ELSE Room(p)
    <2>4. c \in Top(Room(p)) \/ c \in Top(eligible)
      BY <1>1 DEF ProtectedChoice
    <2>5. c \notin Top(Room(p))
      BY <1>5, <2>1, <2>3 DEF Top
    <2>6. c \in Top(eligible) /\ d \notin eligible
      BY <1>5, <2>1, <2>4, <2>5 DEF Top
    <2>7. eligible # Room(p)
      BY <2>3, <2>6
    <2> QED
      BY <2>3, <2>6, <2>7 DEF Top
  <1>6. TypeOK'
    BY <1>1, <1>2, <1>4 DEF IInv, TypeOK, Goto, Ended
  <1>7. PickInv(p)'
    <2>1. \/ pc'[p] = "returned" /\ chosen'[p] = c
          \/ pc'[p] = "failed"
      BY <1>1 DEF IInv, TypeOK, Goto
    <2> QED
      BY <1>2, <1>4, <1>5, <2>1 DEF PickInv, PickKnows, Answered
  <1>8. ASSUME NEW q \in Pickers, q # p PROVE PickInv(q)'
    BY <1>1, <1>2, <1>8, OthersKeep DEF IInv, TypeOK, Goto
  <1> QED
    BY <1>6, <1>7, <1>8 DEF IInv

LEMMA SaturateKeeps ==
  ASSUME IInv, NEW p \in Pickers, Saturate(p)
  PROVE  IInv'
  <1> DEFINE rest == IF Mixed(request[p]) THEN remaining[p] \ Protected(p) ELSE {}
  <1>1. /\ pc[p] = "decide" /\ request[p] \in Requests
        /\ remaining[p] \subseteq available[p] /\ available[p] \ remaining[p] \subseteq full[p]
    BY DEF IInv, PickInv, PickKnows, Saturate
  <1>2. /\ UNCHANGED << request, available, protects, chosen, bound, full, sunk, demoted >>
        /\ \/ /\ remaining' = [remaining EXCEPT ![p] = rest]
              /\ Goto(p, IF rest = {} THEN "saturated" ELSE "choose")
           \/ Goto(p, "failed") /\ UNCHANGED remaining
    BY DEF Saturate, Stays, filters
  <1>3. Protected(p) \subseteq full[p]
    BY DEF Saturate, Room
  <1>4. remaining[p] \ rest \subseteq Protected(p) /\ rest \subseteq remaining[p]
    BY DEF Protected
  <1> HIDE DEF rest
  <1>5. TypeOK'
    BY <1>2, <1>4 DEF IInv, TypeOK, Goto, Ended
  <1>6. PickInv(p)'
    <2>1. \/ /\ remaining'[p] = rest
             /\ pc'[p] = IF rest = {} THEN "saturated" ELSE "choose"
          \/ remaining'[p] = remaining[p] /\ pc'[p] = "failed"
      BY <1>2 DEF IInv, TypeOK, Goto
    <2>2. available[p] \ rest \subseteq full[p]
      BY <1>1, <1>3, <1>4
    <2> QED
      BY <1>1, <1>2, <1>4, <2>1, <2>2 DEF PickInv, PickKnows, Answered
  <1>7. ASSUME NEW q \in Pickers, q # p PROVE PickInv(q)'
    BY <1>2, <1>7, OthersKeep DEF IInv, TypeOK, Goto
  <1> QED
    BY <1>5, <1>6, <1>7 DEF IInv

LEMMA PickFailsKeeps ==
  ASSUME IInv, NEW p \in Pickers, PickFails(p)
  PROVE  IInv'
  <1>1. /\ pc[p] \in {"filter", "forced", "protect"} /\ Goto(p, "failed")
        /\ UNCHANGED << request, remaining, available, protects, chosen, bound, full, sunk, demoted >>
    BY DEF PickFails, Stays, filters, locals
  <1>2. TypeOK'
    BY <1>1 DEF IInv, TypeOK, Goto, Ended
  <1>3. PickInv(p)'
    BY <1>1 DEF IInv, TypeOK, PickInv, PickKnows, Answered, Goto
  <1>4. ASSUME NEW q \in Pickers, q # p PROVE PickInv(q)'
    BY <1>1, <1>4, OthersKeep DEF IInv, TypeOK, Goto
  <1> QED
    BY <1>2, <1>3, <1>4 DEF IInv

LEMMA EndPickKeeps ==
  ASSUME IInv, NEW p \in Pickers, EndPick(p)
  PROVE  IInv'
  <1>1. TypeOK'
    BY DEF IInv, TypeOK, EndPick, Goto, Stays, filters
  <1>2. PickInv(p)'
    BY DEF IInv, TypeOK, PickInv, PickKnows, Answered, EndPick, Goto
  <1>3. ASSUME NEW q \in Pickers, q # p PROVE PickInv(q)'
    BY <1>3, OthersKeep DEF IInv, TypeOK, EndPick, Goto
  <1> QED
    BY <1>1, <1>2, <1>3 DEF IInv

\* What picks filter with may change under them; what they know does not.
LEMMA IInvStep == IInv /\ [Next]_vars => IInv'
  <1> SUFFICES ASSUME IInv, [Next]_vars PROVE IInv'
    OBVIOUS
  <1>1. ASSUME UNCHANGED << pc, locals >>, demoted' \subseteq Codex
        PROVE  IInv'
    <2>1. TypeOK'
      BY <1>1 DEF IInv, TypeOK, locals
    <2>2. ASSUME NEW q \in Pickers PROVE PickInv(q)'
      BY <1>1, OthersKeep DEF locals
    <2> QED
      BY <2>1, <2>2 DEF IInv
  <1>2. ASSUME NEW p \in Pickers, Pick(p) PROVE IInv'
    BY <1>2, PrepareKeeps, FilterKeeps, ChooseKeeps, LookUpKeeps, ReserveKeeps, SaturateKeeps, PickFailsKeeps,
       EndPickKeeps DEF Pick
  <1>3. ASSUME NEW p \in Pickers, NEW req \in Requests, StartPick(p, req) PROVE IInv'
    BY <1>3, StartPickKeeps
  <1>4. ASSUME NEW c \in Codex, Release(c) \/ ChangeUsage(c) PROVE IInv'
    <2>1. UNCHANGED << pc, locals >>
      BY <1>4 DEF Release, ChangeUsage
    <2>2. demoted' \subseteq Codex
      BY <1>4 DEF IInv, TypeOK, Release, ChangeUsage, filters, Toggle
    <2> QED
      BY <1>1, <2>1, <2>2
  <1>5. ASSUME \/ \E row \in Rows : ChangeRestriction(row)
               \/ \E name \in Names : ChangeQuarantine(name)
               \/ \E enabled \in BOOLEAN : Reconfigure(enabled)
               \/ Tick \/ UNCHANGED vars
        PROVE  IInv'
    <2>1. UNCHANGED << pc, locals, demoted >>
      BY <1>5 DEF ChangeRestriction, ChangeQuarantine, Reconfigure, Tick, vars, filters
    <2> QED
      BY <1>1, <2>1 DEF IInv, TypeOK
  <1> QED
    BY <1>2, <1>3, <1>4, <1>5 DEF Next

\* The host is left to choose only among candidates of which the plugin would have
\* removed and protected none, whatever changes under the pick.
THEOREM HostChoosesOnlyUnfiltered == Spec => []DelegatesOnlyUnfiltered
  <1>1. IInv => DelegatesOnlyUnfiltered
    BY DEF IInv, PickInv, Answered, DelegatesOnlyUnfiltered
  <1> QED
    BY <1>1, IInvInit, IInvStep, PTL DEF Spec

\* A higher tier is passed over only for accounts found full, or demoted while the
\* one returned is not, for all priorities and limits.
THEOREM BestAvailableIsReturned == Spec => []ReturnsBestAvailable
  <1>1. IInv => ReturnsBestAvailable
    BY DEF IInv, PickInv, Answered, ReturnsBestAvailable
  <1> QED
    BY <1>1, IInvInit, IInvStep, PTL DEF Spec

\* A pick is refused as saturated only when every candidate it could have returned
\* was found full.
THEOREM SaturatedPicksTriedAll == Spec => []SaturationIsTotal
  <1>1. IInv => SaturationIsTotal
    BY DEF IInv, PickInv, Answered, SaturationIsTotal
  <1> QED
    BY <1>1, IInvInit, IInvStep, PTL DEF Spec

-----------------------------------------------------------------------------
(* Where the candidates of a pick come from                                *)

(***************************************************************************)
(* A pick chooses among candidates its request offered and its route       *)
(* allows; one that is protected as a whole considers only Codex accounts. *)
(***************************************************************************)
Origin(p) ==
  /\ pc[p] # "idle" => request[p] \in scene.requests /\ remaining[p] \subseteq request[p].offered
  /\ \A c \in remaining[p] : Provider[c] \in Allowed(request[p])
  /\ pc[p] \in {"protect", "decide"} /\ ~Mixed(request[p]) => remaining[p] \subseteq Codex

OriginInv == scene \in Scenes /\ \A p \in Pickers : Origin(p)

\* A route that is not mixed and allows one provider allows no other.
LEMMA UnmixedAllowsOne ==
  ASSUME NEW req \in Requests, ~Mixed(req), NEW a \in Allowed(req)
  PROVE  Allowed(req) = {a}
  <1>1. IsFiniteSet(Allowed(req))
    BY FS_Singleton DEF Allowed
  <1>2. Cardinality(Allowed(req)) \in Nat
    BY <1>1, FS_CardinalityType
  <1>3. Cardinality(Allowed(req)) <= 1
    BY <1>2 DEF Mixed
  <1>4. Cardinality({a}) = 1 /\ {a} \subseteq Allowed(req)
    BY FS_Singleton
  <1>5. Cardinality({a}) <= Cardinality(Allowed(req))
    BY <1>1, <1>4, FS_Subset
  <1>6. Cardinality({a}) = Cardinality(Allowed(req))
    BY <1>2, <1>3, <1>4, <1>5
  <1> QED
    BY <1>1, <1>4, <1>6, FS_Subset

\* So with a Codex candidate among them, they are all of Codex.
LEMMA UnmixedCodex ==
  ASSUME NEW req \in Requests, ~Mixed(req), NEW S \in SUBSET Candidates,
         \A c \in S : Provider[c] \in Allowed(req), S \cap Codex # {}
  PROVE  S \subseteq Codex
  <1>1. "codex" \in Allowed(req)
    BY DEF Codex
  <1> QED
    BY <1>1, UnmixedAllowsOne DEF Codex

\* A step of another pick leaves it alone.
LEMMA OthersKeepOrigin ==
  ASSUME OriginInv, UNCHANGED scene, NEW q \in Pickers, pc'[q] = pc[q], request'[q] = request[q],
         remaining'[q] = remaining[q]
  PROVE  Origin(q)'
  BY DEF OriginInv, Origin

\* No pick has candidates at the start.
LEMMA OriginInit == Init => OriginInv
  BY DEF Init, OriginInv, Origin

\* Candidates only leave remaining; a pick protects its whole route after a Codex
\* candidate was seen on it.
LEMMA OriginStep == IInv /\ OriginInv /\ [Next]_vars => OriginInv'
  <1> SUFFICES ASSUME IInv, OriginInv, [Next]_vars PROVE OriginInv'
    OBVIOUS
  <1>0. TypeOK /\ scene \in Scenes
    BY DEF IInv, OriginInv
  <1>1. ASSUME UNCHANGED << pc, request, remaining, scene >> PROVE OriginInv'
    BY <1>1 DEF OriginInv, Origin
  <1>2. ASSUME NEW p \in Pickers, NEW l, NEW S, pc' = [pc EXCEPT ![p] = l],
               remaining' = [remaining EXCEPT ![p] = S] \/ (remaining' = remaining /\ S = remaining[p]),
               UNCHANGED << request, scene >>, pc[p] # "idle", S \subseteq request[p].offered,
               \A c \in S : Provider[c] \in Allowed(request[p]),
               l \in {"protect", "decide"} /\ ~Mixed(request[p]) => S \subseteq Codex
        PROVE  OriginInv'
    <2>1. Origin(p)'
      BY <1>0, <1>2 DEF OriginInv, Origin, TypeOK
    <2>2. ASSUME NEW q \in Pickers, q # p PROVE Origin(q)'
      BY <1>0, <1>2, <2>2, OthersKeepOrigin DEF TypeOK
    <2> QED
      BY <1>0, <1>2, <2>1, <2>2 DEF OriginInv
  <1>3. ASSUME NEW p \in Pickers, pc[p] # "idle"
        PROVE  /\ request[p] \in Requests /\ remaining[p] \subseteq request[p].offered
               /\ remaining[p] \subseteq Candidates /\ Origin(p)
    BY <1>0, <1>3 DEF IInv, PickInv, PickKnows, TypeOK, OriginInv, Origin
  <1>4. ASSUME NEW p \in Pickers, Prepare(p) PROVE OriginInv'
    <2>1. pc[p] # "idle"
      BY <1>4 DEF Prepare
    <2>2. \E l : /\ pc' = [pc EXCEPT ![p] = l] /\ l \notin {"protect", "decide"}
                 /\ \/ remaining' = remaining
                    \/ remaining' = [remaining EXCEPT ![p] = Kept(request[p])]
      BY <1>4 DEF Prepare, Goto
    <2>3. UNCHANGED << request, scene >>
      BY <1>4 DEF Prepare, Stays
    <2>4. /\ Kept(request[p]) \subseteq request[p].offered
          /\ \A c \in Kept(request[p]) : Provider[c] \in Allowed(request[p])
      BY DEF Kept
    <2>5. /\ remaining[p] \subseteq request[p].offered
          /\ \A c \in remaining[p] : Provider[c] \in Allowed(request[p])
      BY <1>3, <2>1 DEF Origin
    <2> QED
      BY <1>2, <2>1, <2>2, <2>3, <2>4, <2>5
  <1>5. ASSUME NEW p \in Pickers, Filter(p) PROVE OriginInv'
    <2> DEFINE rest == Unrestricted(remaining[p])
    <2>1. pc[p] # "idle" /\ UNCHANGED << request, scene >>
          /\ remaining' = [remaining EXCEPT ![p] = rest] /\ rest \subseteq remaining[p]
      BY <1>5 DEF Filter, Stays, Unrestricted
    <2>2. \/ \E l \in {"delegated", "rejected", "choose"} : pc' = [pc EXCEPT ![p] = l]
          \/ pc' = [pc EXCEPT ![p] = "protect"] /\ remaining[p] \cap Codex # {}
      <3>1. \/ Goto(p, "delegated") \/ Goto(p, "rejected") \/ Goto(p, "choose")
            \/ Goto(p, "protect") /\ remaining[p] \cap Codex # {}
        BY <1>5 DEF Filter
      <3> QED
        BY <3>1 DEF Goto
    <2>3. ~Mixed(request[p]) /\ remaining[p] \cap Codex # {} => remaining[p] \subseteq Codex
      BY <1>3, <2>1, UnmixedCodex DEF Origin
    <2>4. /\ rest \subseteq request[p].offered
          /\ \A c \in rest : Provider[c] \in Allowed(request[p])
      BY <1>3, <2>1 DEF Origin
    <2> HIDE DEF rest
    <2> QED
      BY <1>2, <2>1, <2>2, <2>3, <2>4
  <1>6. ASSUME NEW p \in Pickers, Choose(p) PROVE OriginInv'
    <2>1. pc[p] # "idle" /\ UNCHANGED << request, scene, remaining >>
      BY <1>6 DEF Choose, Stays
    <2>2. PICK c \in Top(remaining[p]) : \E l : pc' = [pc EXCEPT ![p] = l]
                                          /\ (l # "returned" => c \in Codex)
      BY <1>6 DEF Choose, Goto
    <2>3. c \in remaining[p]
      BY DEF Top
    <2>4. ~Mixed(request[p]) /\ c \in Codex => remaining[p] \subseteq Codex
      BY <1>3, <2>1, <2>3, UnmixedCodex DEF Origin
    <2> QED
      BY <1>2, <1>3, <2>1, <2>2, <2>4 DEF Origin
  <1>7. ASSUME NEW p \in Pickers, Reserve(p) \/ PickFails(p) PROVE OriginInv'
    <2>1. pc[p] # "idle" /\ UNCHANGED << request, scene, remaining >>
          /\ \E l \in Ended : pc' = [pc EXCEPT ![p] = l]
      BY <1>7 DEF Reserve, PickFails, Stays, locals, Goto, Ended
    <2> QED
      BY <1>2, <1>3, <2>1 DEF Origin, Ended
  <1>8. ASSUME NEW p \in Pickers, Saturate(p) PROVE OriginInv'
    <2> DEFINE rest == IF Mixed(request[p]) THEN remaining[p] \ Protected(p) ELSE {}
    <2>1. /\ pc[p] # "idle" /\ UNCHANGED << request, scene >> /\ rest \subseteq remaining[p]
          /\ remaining' = [remaining EXCEPT ![p] = rest] \/ remaining' = remaining
          /\ \E l \in {"saturated", "choose", "failed"} : pc' = [pc EXCEPT ![p] = l]
      BY <1>8 DEF Saturate, Stays, Goto
    <2> HIDE DEF rest
    <2> QED
      BY <1>2, <1>3, <2>1 DEF Origin
  <1>9. ASSUME NEW p \in Pickers, EndPick(p) PROVE OriginInv'
    <2>1. /\ scene' = scene /\ pc'[p] = "idle" /\ remaining'[p] = {}
          /\ \A q \in Pickers \ {p} : pc'[q] = pc[q] /\ request'[q] = request[q] /\ remaining'[q] = remaining[q]
      BY <1>0, <1>9 DEF EndPick, Stays, Goto, TypeOK
    <2>2. Origin(p)'
      BY <2>1 DEF Origin
    <2> QED
      BY <1>0, <2>1, <2>2, OthersKeepOrigin DEF OriginInv
  <1>10. ASSUME NEW p \in Pickers, NEW req \in Requests, StartPick(p, req) PROVE OriginInv'
    <2>1. /\ scene' = scene /\ pc'[p] = "prepare" /\ remaining'[p] = {} /\ request'[p] = req
          /\ req \in scene.requests
          /\ \A q \in Pickers \ {p} : pc'[q] = pc[q] /\ request'[q] = request[q] /\ remaining'[q] = remaining[q]
      BY <1>0, <1>10 DEF StartPick, Goto, TypeOK, IInv, PickInv, PickKnows
    <2>2. Origin(p)'
      BY <2>1 DEF Origin
    <2> QED
      BY <1>0, <2>1, <2>2, OthersKeepOrigin DEF OriginInv
  <1>11. ASSUME \/ \E c \in Codex : Release(c) \/ ChangeUsage(c)
                \/ \E row \in Rows : ChangeRestriction(row)
                \/ \E name \in Names : ChangeQuarantine(name)
                \/ \E enabled \in BOOLEAN : Reconfigure(enabled)
                \/ Tick \/ UNCHANGED vars
         PROVE  OriginInv'
    <2>1. UNCHANGED << pc, request, remaining, scene >>
      BY <1>11 DEF Release, ChangeUsage, ChangeRestriction, ChangeQuarantine, Reconfigure, Tick, vars, locals
    <2> QED
      BY <1>1, <2>1
  <1>12. ASSUME NEW p \in Pickers, LookUp(p) PROVE OriginInv'
    <2>1. pc[p] = "protect" /\ UNCHANGED << request, scene, remaining >>
          /\ pc' = [pc EXCEPT ![p] = "decide"]
      BY <1>12 DEF LookUp, Stays, Goto
    <2> QED
      BY <1>2, <1>3, <2>1 DEF Origin
  <1> QED
    BY <1>4, <1>5, <1>6, <1>7, <1>8, <1>9, <1>10, <1>11, <1>12 DEF Next, Pick

-----------------------------------------------------------------------------
(* pickMu and protection                                                   *)

(***************************************************************************)
(* Only one pick decides at a time.  Every pick is protected while the      *)
(* protection is on, so no pick of a route of Codex accounts alone binds    *)
(* a session of that route outside pickMu: what such a pick looked up is    *)
(* still what is bound, unless the binding is gone.                         *)
(***************************************************************************)
Bound(p) ==
  LET key == AffinityKey(request[p])
  IN key # None /\ key \in DOMAIN bindings => bindings[key].candidate \in bound[p]

Held(p) ==
  /\ p \in protects => protection
  /\ pc[p] \in {"protect", "decide"} => p \in protects /\ remaining[p] # {}
  /\ pc[p] = "choose" /\ ~Mixed(request[p]) /\ protection => remaining[p] \cap Codex = {}
  /\ pc[p] = "decide" => \A q \in Pickers : pc[q] = "decide" => q = p
  /\ pc[p] = "decide" /\ ~Mixed(request[p]) => Bound(p)

HeldInv == \A p \in Pickers : Held(p)

\* Nobody has picked yet.
LEMMA HeldInit == Init => HeldInv
  BY DEF Init, HeldInv, Held


\* A step of another pick that leaves the bindings of this session alone.
LEMMA OthersKeepHeld ==
  ASSUME HeldInv, NEW q \in Pickers, UNCHANGED protection,
         pc'[q] = pc[q], request'[q] = request[q], remaining'[q] = remaining[q],
         bound'[q] = bound[q], (q \in protects') <=> (q \in protects),
         pc[q] = "decide" => \A r \in Pickers : pc'[r] = "decide" => pc[r] = "decide",
         pc[q] = "decide" /\ ~Mixed(request[q]) => Bound(q)'
  PROVE  Held(q)'
  BY DEF HeldInv, Held

\* As long as nobody binds this session, what was found bound is so, or nothing is.
LEMMA BoundStays ==
  ASSUME NEW q \in Pickers, Bound(q), request'[q] = request[q], bound'[q] = bound[q],
         LET key == AffinityKey(request[q])
         IN key # None /\ key \in DOMAIN bindings' =>
              key \in DOMAIN bindings /\ bindings'[key].candidate = bindings[key].candidate
  PROVE  Bound(q)'
  BY DEF Bound, AffinityKey

\* What remains of a map after an eviction is as it was.
LEMMA WithoutKeeps ==
  ASSUME NEW f, NEW ks, NEW k \in DOMAIN Without(f, ks)
  PROVE  k \in DOMAIN f /\ k \notin ks /\ Without(f, ks)[k] = f[k]
  BY DEF Without, Restrict

\* Nor does evictOneLocked change what it leaves.
LEMMA EvictedKeeps ==
  ASSUME NEW b, NEW kept \in Evicted(b), NEW k \in DOMAIN kept
  PROVE  k \in DOMAIN b /\ kept[k] = b[k]
  <1>1. CASE kept = b
    BY <1>1
  <1>2. ASSUME NEW j, kept = Without(b, {j})
        PROVE  k \in DOMAIN b /\ kept[k] = b[k]
    BY <1>2, WithoutKeeps
  <1>3. kept = b \/ \E j : kept = Without(b, {j})
    BY DEF Evicted
  <1> QED
    BY <1>1, <1>2, <1>3

\* A look-up never changes the candidate of a binding.
LEMMA LookedUpKeeps ==
  ASSUME NEW b, NEW key, NEW S, NEW k \in DOMAIN LookedUp(b, key, S)
  PROVE  k \in DOMAIN b /\ LookedUp(b, key, S)[k].candidate = b[k].candidate
  <1>1. CASE Binds(b, key, S)
    BY <1>1 DEF LookedUp, Bind, Binds
  <1>2. CASE ~Binds(b, key, S)
    BY <1>2, WithoutKeeps DEF LookedUp
  <1> QED
    BY <1>1, <1>2

\* pickOrBind never binds the session of another key.
LEMMA PickOrBindBindsItsOwn ==
  ASSUME NEW key, NEW cursor, NEW S, NEW c, PickOrBind(bindings, key, cursor, S, c),
         NEW k \in DOMAIN bindings', k # key
  PROVE  k \in DOMAIN bindings /\ bindings'[k].candidate = bindings[k].candidate
  <1>1. CASE Binds(bindings, key, S)
    <2>1. bindings' = LookedUp(bindings, key, S)
      BY <1>1 DEF PickOrBind
    <2> QED
      BY <2>1, LookedUpKeeps
  <1>2. CASE ~Binds(bindings, key, S) /\ key = None
    BY <1>2 DEF PickOrBind
  <1>3. CASE ~Binds(bindings, key, S) /\ key # None
    <2>1. PICK kept \in Evicted(Without(bindings, {key})) : bindings' = Bind(kept, key, c)
      BY <1>3 DEF PickOrBind
    <2>2. k \in DOMAIN kept /\ bindings'[k] = kept[k]
      BY <2>1 DEF Bind
    <2>3. k \in DOMAIN Without(bindings, {key}) /\ kept[k] = Without(bindings, {key})[k]
      BY <2>2, EvictedKeeps
    <2> QED
      BY <2>2, <2>3, WithoutKeeps
  <1> QED
    BY <1>1, <1>2, <1>3

\* A protected pick of a route that is not mixed shares its session with no pick that
\* chooses without protection.
LEMMA NobodyElseBinds ==
  ASSUME IInv, OriginInv, HeldInv, NEW p \in Pickers, NEW q \in Pickers,
         pc[p] = "decide", ~Mixed(request[p]), pc[q] = "choose", Top(remaining[q]) # {},
         AffinityKey(request[p]) # None
  PROVE  AffinityKey(request[q]) # AffinityKey(request[p])
  <1> SUFFICES ASSUME AffinityKey(request[q]) = AffinityKey(request[p]) PROVE FALSE
    OBVIOUS
  <1>1. Kind(request[q]) = Kind(request[p])
    BY DEF AffinityKey
  <1>2. /\ request[p] \in Requests /\ request[q] \in Requests
        /\ remaining[p] \subseteq Candidates /\ remaining[q] \subseteq Candidates
    BY DEF IInv, PickInv, PickKnows, TypeOK
  <1>3. PICK c \in remaining[p] : c \in Codex
    BY DEF OriginInv, Origin, HeldInv, Held
  <1>4. "codex" \in Allowed(request[p])
    BY <1>3 DEF OriginInv, Origin, Codex
  <1>5. Allowed(request[p]) = {"codex"}
    BY <1>2, <1>4, UnmixedAllowsOne
  <1>6. Kind(request[p]) = "codex"
    <2>1. Cardinality({"codex"}) = 1
      BY FS_Singleton
    <2> QED
      BY <1>5, <2>1 DEF Kind
  <1>7. Cardinality(Allowed(request[q])) = 1 /\ (CHOOSE a \in Allowed(request[q]) : TRUE) = "codex"
    BY <1>1, <1>6 DEF Kind
  <1>8. ~Mixed(request[q])
    BY <1>7 DEF Mixed
  <1>9. "codex" \in Allowed(request[q])
    <2>1. Allowed(request[q]) # {}
      BY <1>7, FS_EmptySet
    <2> QED
      BY <1>7, <2>1
  <1>10. Allowed(request[q]) = {"codex"}
    BY <1>2, <1>8, <1>9, UnmixedAllowsOne
  <1>11. PICK d \in remaining[q] : d \in Codex
    <2>1. PICK d \in remaining[q] : TRUE
      BY DEF Top
    <2>2. Provider[d] = "codex" /\ d \in Candidates
      BY <1>2, <1>10, <2>1 DEF OriginInv, Origin
    <2> QED
      BY <2>1, <2>2 DEF Codex
  <1>12. protection
    BY DEF HeldInv, Held
  <1> QED
    BY <1>8, <1>11, <1>12 DEF HeldInv, Held

\* Nobody takes pickMu from a pick that decides, and nobody binds its session unless
\* its route is mixed.
LEMMA HeldStep == IInv /\ OriginInv /\ HeldInv /\ [Next]_vars => HeldInv'
  <1> SUFFICES ASSUME IInv, OriginInv, HeldInv, [Next]_vars PROVE HeldInv'
    OBVIOUS
  <1>0. TypeOK
    BY DEF IInv
  \* A step of p that is not its look-up, and what it leaves of the others.
  <1>1. ASSUME NEW p \in Pickers, NEW l, pc' = [pc EXCEPT ![p] = l], l # "decide",
               UNCHANGED << protection, bound >>,
               \A q \in Pickers \ {p} : /\ request'[q] = request[q] /\ remaining'[q] = remaining[q]
                                        /\ (q \in protects') <=> (q \in protects)
                                        /\ pc[q] = "decide" /\ ~Mixed(request[q]) => Bound(q)'
        PROVE  \A q \in Pickers \ {p} : Held(q)'
    <2> TAKE q \in Pickers \ {p}
    <2>1. pc'[q] = pc[q] /\ \A r \in Pickers : pc'[r] = "decide" => pc[r] = "decide"
      BY <1>0, <1>1 DEF TypeOK
    <2> QED
      BY <1>1, <2>1, OthersKeepHeld
  <1>2. ASSUME NEW p \in Pickers, NEW l, pc' = [pc EXCEPT ![p] = l], l \notin {"protect", "decide"},
               UNCHANGED << protection, bound, request >>, bindings' = bindings,
               \A q \in Pickers \ {p} : /\ remaining'[q] = remaining[q]
                                        /\ (q \in protects') <=> (q \in protects),
               p \in protects' => protection,
               l = "choose" /\ ~Mixed(request[p]) /\ protection => remaining'[p] \cap Codex = {}
        PROVE  HeldInv'
    <2>1. Held(p)'
      BY <1>0, <1>2 DEF Held, TypeOK
    <2>2. ASSUME NEW q \in Pickers, pc[q] = "decide" /\ ~Mixed(request[q]) PROVE Bound(q)'
      BY <1>2, <2>2, BoundStays DEF HeldInv, Held
    <2>3. \A q \in Pickers \ {p} : Held(q)'
      BY <1>1, <1>2, <2>2
    <2> QED
      BY <2>1, <2>3 DEF HeldInv
  <1>3. ASSUME NEW p \in Pickers, Prepare(p) \/ PickFails(p) PROVE HeldInv'
    <2>1. UNCHANGED << protection, bound, request, bindings, protects >>
      BY <1>3 DEF Prepare, PickFails, Stays, filters, shared, locals
    <2>2. \A q \in Pickers \ {p} : remaining'[q] = remaining[q]
      BY <1>0, <1>3 DEF Prepare, PickFails, locals, TypeOK
    <2>3. \E l \in {"rejected", "delegated", "forced", "filter", "failed"} : pc' = [pc EXCEPT ![p] = l]
      BY <1>3 DEF Prepare, PickFails, Goto
    <2>4. p \in protects' => protection
      BY <2>1 DEF HeldInv, Held
    <2> QED
      BY <1>2, <2>1, <2>2, <2>3, <2>4
  <1>4. ASSUME NEW p \in Pickers, Filter(p) PROVE HeldInv'
    <2> DEFINE rest == Unrestricted(remaining[p])
               protect == protection /\ remaining[p] \cap Codex # {}
    <2>1. /\ UNCHANGED << protection, bound, request, bindings >> /\ rest \subseteq remaining[p]
          /\ p \notin protects /\ protects' = (IF protect THEN protects \cup {p} ELSE protects)
          /\ remaining' = [remaining EXCEPT ![p] = rest]
      BY <1>4 DEF Filter, Stays, filters, shared, Unrestricted, IInv, PickInv, PickKnows
    <2>2. \/ \E l \in {"delegated", "rejected"} : pc' = [pc EXCEPT ![p] = l]
          \/ /\ pc' = [pc EXCEPT ![p] = "protect"] /\ rest # {} /\ protect
          \/ /\ pc' = [pc EXCEPT ![p] = "choose"] /\ (protect => Mixed(request[p]))
      BY <1>4 DEF Filter, Goto
    <2>3. ASSUME NEW q \in Pickers, pc[q] = "decide" /\ ~Mixed(request[q]) PROVE Bound(q)'
      BY <2>1, <2>3, BoundStays DEF HeldInv, Held
    <2>4. remaining'[p] = rest /\ \A q \in Pickers \ {p} : remaining'[q] = remaining[q]
      BY <1>0, <2>1 DEF TypeOK
    <2> HIDE DEF rest
    <2>5. Held(p)'
      BY <1>0, <2>1, <2>2, <2>4 DEF Held, TypeOK
    <2>6. \A q \in Pickers \ {p} : Held(q)'
      BY <1>1, <2>1, <2>2, <2>3, <2>4
    <2> QED
      BY <2>5, <2>6 DEF HeldInv
  <1>5. ASSUME NEW p \in Pickers, Choose(p) PROVE HeldInv'
    <2>1. /\ pc[p] = "choose" /\ UNCHANGED << protection, bound, request, remaining, protects >>
          /\ \/ pc' = [pc EXCEPT ![p] = "protect"] /\ p \in protects
             \/ pc' = [pc EXCEPT ![p] = "returned"]
          /\ Top(remaining[p]) # {}
      BY <1>5 DEF Choose, Stays, Goto, filters
    <2>2. PICK cursor, S, c : PickOrBind(bindings, AffinityKey(request[p]), cursor, S, c)
      BY <1>5 DEF Choose
    <2>3. ASSUME NEW q \in Pickers \ {p}, pc[q] = "decide" /\ ~Mixed(request[q]) PROVE Bound(q)'
      <3>1. Bound(q)
        BY <2>3 DEF HeldInv, Held
      <3>2. AffinityKey(request[q]) # None => AffinityKey(request[p]) # AffinityKey(request[q])
        BY <2>1, <2>3, NobodyElseBinds
      <3> QED
        BY <2>1, <2>2, <3>1, <3>2, PickOrBindBindsItsOwn, BoundStays
    <2>4. Held(p)'
      <3>1. remaining[p] # {}
        BY <2>1 DEF Top
      <3> QED
        BY <1>0, <2>1, <3>1 DEF HeldInv, Held, TypeOK
    <2>5. \A q \in Pickers \ {p} : Held(q)'
      BY <1>1, <2>1, <2>3
    <2> QED
      BY <2>4, <2>5 DEF HeldInv
  <1>6. ASSUME NEW p \in Pickers, LookUp(p) PROVE HeldInv'
    <2> DEFINE key == AffinityKey(request[p])
               S == Protected(p)
    <2>1. /\ pc[p] = "protect" /\ \A q \in Pickers : pc[q] # "decide"
          /\ UNCHANGED << protection, request, remaining, protects >>
          /\ pc' = [pc EXCEPT ![p] = "decide"]
          /\ bindings' = IF key = None THEN bindings ELSE LookedUp(bindings, key, S)
          /\ bound' = [bound EXCEPT ![p] = IF Binds(bindings, key, S) THEN {bindings[key].candidate} ELSE {}]
      BY <1>6 DEF LookUp, Stays, Goto, filters
    <2>2. Bound(p)'
      <3>1. SUFFICES ASSUME key # None, key \in DOMAIN bindings'
                     PROVE  bindings'[key].candidate \in bound'[p]
        BY <2>1 DEF Bound, AffinityKey
      <3>2. Binds(bindings, key, S)
        BY <2>1, <3>1 DEF LookedUp, Without, Restrict
      <3>3. bindings'[key].candidate = bindings[key].candidate
        BY <2>1, <3>1, LookedUpKeeps
      <3> QED
        BY <1>0, <2>1, <3>2, <3>3 DEF TypeOK
    <2> HIDE DEF key, S
    <2>3. pc'[p] = "decide" /\ \A q \in Pickers \ {p} : pc'[q] = pc[q]
      BY <1>0, <2>1 DEF TypeOK
    <2>4. Held(p)'
      BY <2>1, <2>2, <2>3 DEF HeldInv, Held
    <2>5. \A q \in Pickers \ {p} : Held(q)'
      BY <2>1, <2>3 DEF HeldInv, Held
    <2> QED
      BY <2>4, <2>5 DEF HeldInv
  <1>7. ASSUME NEW p \in Pickers, Reserve(p) PROVE HeldInv'
    <2>1. /\ pc[p] = "decide" /\ UNCHANGED << protection, bound, request, remaining, protects >>
          /\ \E l \in {"returned", "failed"} : pc' = [pc EXCEPT ![p] = l]
      BY <1>7 DEF Reserve, Goto, filters
    <2>2. \A q \in Pickers \ {p} : pc[q] # "decide"
      BY <2>1 DEF HeldInv, Held
    <2>3. Held(p)'
      BY <1>0, <2>1 DEF HeldInv, Held, TypeOK
    <2>4. \A q \in Pickers \ {p} : Held(q)'
      BY <1>1, <2>1, <2>2
    <2> QED
      BY <2>3, <2>4 DEF HeldInv
  <1>8. ASSUME NEW p \in Pickers, Saturate(p) PROVE HeldInv'
    <2>1. UNCHANGED << protection, bound, request, bindings, protects >>
      BY <1>8 DEF Saturate, Stays, filters, shared
    <2>2. \A q \in Pickers \ {p} : remaining'[q] = remaining[q]
      BY <1>0, <1>8 DEF Saturate, TypeOK
    <2>3. \/ \E l \in {"saturated", "failed"} : pc' = [pc EXCEPT ![p] = l]
          \/ pc' = [pc EXCEPT ![p] = "choose"] /\ Mixed(request[p])
      BY <1>8 DEF Saturate, Goto
    <2>4. p \in protects' => protection
      BY <2>1 DEF HeldInv, Held
    <2> QED
      BY <1>2, <2>1, <2>2, <2>3, <2>4
  <1>9. ASSUME NEW p \in Pickers,
               EndPick(p) \/ \E req \in Requests : StartPick(p, req)
        PROVE  HeldInv'
    <2>1. /\ UNCHANGED << protection, bindings >> /\ p \notin protects'
          /\ \A q \in Pickers \ {p} :
               /\ request'[q] = request[q] /\ remaining'[q] = remaining[q] /\ bound'[q] = bound[q]
               /\ (q \in protects') <=> (q \in protects)
               /\ pc'[q] = pc[q]
          /\ pc'[p] \in {"idle", "prepare"}
      BY <1>0, <1>9 DEF EndPick, StartPick, Stays, Goto, filters, shared, TypeOK, IInv, PickInv, PickKnows
    <2>2. Held(p)'
      BY <2>1 DEF Held
    <2>3. ASSUME NEW q \in Pickers \ {p} PROVE Held(q)'
      <3>1. pc[q] = "decide" /\ ~Mixed(request[q]) => Bound(q)'
        BY <2>1, <2>3, BoundStays DEF HeldInv, Held
      <3>2. \A r \in Pickers : pc'[r] = "decide" => pc[r] = "decide"
        BY <2>1
      <3>3. /\ UNCHANGED protection /\ pc'[q] = pc[q] /\ request'[q] = request[q]
            /\ remaining'[q] = remaining[q] /\ bound'[q] = bound[q]
            /\ (q \in protects') <=> (q \in protects)
        BY <2>1, <2>3
      <3> QED
        BY <3>1, <3>2, <3>3, OthersKeepHeld
    <2> QED
      BY <2>2, <2>3 DEF HeldInv
  <1>10. ASSUME NEW enabled, Reconfigure(enabled) PROVE HeldInv'
    <2>1. UNCHANGED << pc, protects >> /\ \A p \in Pickers : pc[p] = "idle"
      BY <1>10 DEF Reconfigure, locals
    <2>2. \A p \in Pickers : p \notin protects
      BY <2>1 DEF IInv, PickInv, PickKnows
    <2> QED
      BY <2>1, <2>2 DEF HeldInv, Held
  <1>11. ASSUME \/ \E c \in Codex : Release(c) \/ ChangeUsage(c)
                \/ \E row \in Rows : ChangeRestriction(row)
                \/ \E name \in Names : ChangeQuarantine(name)
                \/ Tick \/ UNCHANGED vars
         PROVE  HeldInv'
    <2>1. UNCHANGED << pc, request, remaining, protects, bound, bindings, protection >>
      BY <1>11 DEF Release, ChangeUsage, ChangeRestriction, ChangeQuarantine, Tick, vars, locals, filters, shared
    <2> QED
      BY <2>1 DEF HeldInv, Held, Bound
  <1> QED
    BY <1>3, <1>4, <1>5, <1>6, <1>7, <1>8, <1>9, <1>10, <1>11 DEF Next, Pick

\* What a pick knows, where its candidates come from and what pickMu protects.
LEMMA PicksInvariant == Spec => [](IInv /\ OriginInv /\ HeldInv /\ Bounded)
  BY IInvInit, IInvStep, OriginInit, OriginStep, HeldInit, HeldStep, BoundedInit, BoundedStep,
     PTL DEF Spec

-----------------------------------------------------------------------------
(* Sessions                                                                *)

\* The session k is not bound to the candidate it was bound to any more.
Leaves(k) == ~(k \in DOMAIN bindings' /\ bindings'[k].candidate = bindings[k].candidate)

\* The binding of k has been removed to make room for another one.
EvictedFor(k) ==
  /\ k \notin DOMAIN bindings' /\ DOMAIN bindings' \ DOMAIN bindings # {}
  /\ Cardinality(DOMAIN bindings) = MaxBindings

\* The step is of a pick of k that may leave its candidate.
MovedBy(p, k) ==
  /\ pc'[p] # pc[p] /\ AffinityKey(request[p]) = k
  /\ bindings[k].candidate \notin Keeps(p) \/ Overtaken(p, bindings[k].candidate)

\* pickOrBind takes a candidate only from its own session, and only when it cannot use
\* the binding it finds, or from another one by an eviction.
LEMMA PickOrBindMoves ==
  ASSUME BoundedBy(bindings, MaxBindings),
         NEW key, NEW cursor, NEW S, NEW c, PickOrBind(bindings, key, cursor, S, c),
         NEW k \in DOMAIN bindings, Leaves(k)
  PROVE  (k = key /\ key # None /\ ~Binds(bindings, key, S)) \/ EvictedFor(k)
  <1> DEFINE rest == Without(bindings, {key})
  <1>1. ~Binds(bindings, key, S)
    <2> SUFFICES ASSUME Binds(bindings, key, S) PROVE FALSE
      OBVIOUS
    <2>1. bindings' = Bind(bindings, key, bindings[key].candidate) /\ key \in DOMAIN bindings
      BY DEF PickOrBind, LookedUp, Binds
    <2> QED
      BY <2>1 DEF Bind, Leaves
  <1>2. key # None
    BY <1>1 DEF PickOrBind, Leaves
  <1>3. PICK kept \in Evicted(rest) : bindings' = Bind(kept, key, c)
    BY <1>1, <1>2 DEF PickOrBind
  <1>4. ASSUME k # key PROVE EvictedFor(k)
    <2>1. DOMAIN rest = DOMAIN bindings \ {key} /\ k \in DOMAIN rest /\ rest[k] = bindings[k]
      BY <1>4 DEF Without, Restrict
    <2> HIDE DEF rest
    <2>2. k \notin DOMAIN bindings'
      <3> SUFFICES ASSUME k \in DOMAIN bindings' PROVE FALSE
        OBVIOUS
      <3>1. k \in DOMAIN kept /\ bindings'[k] = kept[k]
        BY <1>3, <1>4 DEF Bind
      <3>2. kept[k] = rest[k]
        BY <3>1, EvictedKeeps
      <3> QED
        BY <2>1, <3>1, <3>2 DEF Leaves
    <2>3. k \notin DOMAIN kept
      BY <1>3, <2>2 DEF Bind
    <2>4. ~(Cardinality(DOMAIN rest) < MaxBindings)
      BY <2>1, <2>3 DEF Evicted
    <2>5. /\ IsFiniteSet(DOMAIN bindings) /\ Cardinality(DOMAIN bindings) <= MaxBindings
          /\ Cardinality(DOMAIN bindings) \in Nat
      BY FS_CardinalityType DEF BoundedBy
    <2>6. key \notin DOMAIN bindings
      <3> SUFFICES ASSUME key \in DOMAIN bindings PROVE FALSE
        OBVIOUS
      <3>1. Cardinality(DOMAIN rest) = Cardinality(DOMAIN bindings) - 1
        BY <2>1, <2>5, FS_RemoveElement
      <3> QED
        BY <2>4, <2>5, <3>1
    <2>7. DOMAIN rest = DOMAIN bindings
      BY <2>1, <2>6
    <2>8. key \in DOMAIN bindings'
      BY <1>3 DEF Bind
    <2>9. Cardinality(DOMAIN bindings) = MaxBindings
      BY <2>4, <2>5, <2>7
    <2> QED
      BY <2>2, <2>6, <2>8, <2>9 DEF EvictedFor
  <1> QED
    BY <1>1, <1>2, <1>4

\* An unprotected choice moves the session of its pick from a candidate that is not in
\* the highest tier.
LEMMA ChooseMoves ==
  ASSUME IInv, Bounded, NEW p \in Pickers, Choose(p),
         NEW k \in DOMAIN bindings, Leaves(k), bindings[k].expires > clock
  PROVE  EvictedFor(k) \/ MovedBy(p, k)
  <1> DEFINE key == AffinityKey(request[p])
             old == bindings[k].candidate
  <1>1. pc[p] = "choose" /\ pc'[p] # "choose"
    BY DEF Choose, Goto, IInv, TypeOK
  <1>2. PICK c, cursor : PickOrBind(bindings, key, cursor, Top(remaining[p]), c)
    BY DEF Choose
  <1>3. EvictedFor(k) \/ (k = key /\ key # None /\ ~Binds(bindings, key, Top(remaining[p])))
    BY <1>2, PickOrBindMoves DEF Bounded
  <1>4. ASSUME k = key, key # None, ~Binds(bindings, key, Top(remaining[p])) PROVE MovedBy(p, k)
    <2>1. old \notin Top(remaining[p])
      BY <1>4 DEF Binds
    <2>2. Keeps(p) = Top(remaining[p])
      BY <1>1 DEF Keeps
    <2> QED
      BY <1>1, <1>4, <2>1, <2>2 DEF MovedBy
  <1> QED
    BY <1>3, <1>4

\* A look-up drops the binding of the session if the pick is not about its candidate.
LEMMA LookUpMoves ==
  ASSUME IInv, NEW p \in Pickers, LookUp(p),
         NEW k \in DOMAIN bindings, Leaves(k), bindings[k].expires > clock
  PROVE  MovedBy(p, k)
  <1> DEFINE key == AffinityKey(request[p])
             S == Protected(p)
  <1>1. pc[p] = "protect" /\ pc'[p] # "protect"
    BY DEF LookUp, Goto, IInv, TypeOK
  <1>2. key # None /\ bindings' = LookedUp(bindings, key, S)
    BY DEF LookUp, Leaves
  <1>3. ~Binds(bindings, key, S)
    BY <1>2 DEF LookedUp, Bind, Binds, Leaves
  <1>4. k = key
    BY <1>2, <1>3 DEF LookedUp, Without, Restrict, Leaves
  <1>5. bindings[k].candidate \notin S
    BY <1>2, <1>3, <1>4 DEF Binds
  <1> QED
    BY <1>1, <1>4, <1>5 DEF MovedBy, Keeps

\* A protected choice moves it from an account that was full, or below one with room;
\* from a demoted one only if it was not yet bound when the pick looked the session up.
LEMMA ReserveMoves ==
  ASSUME IInv, HeldInv, Bounded, NEW p \in Pickers, Reserve(p),
         NEW k \in DOMAIN bindings, Leaves(k), bindings[k].expires > clock
  PROVE  EvictedFor(k) \/ MovedBy(p, k)
  <1> DEFINE key == AffinityKey(request[p])
             old == bindings[k].candidate
             normal == Room(p) \ sunk[p]
             eligible == IF normal # {} THEN normal ELSE Room(p)
  <1>1. pc[p] = "decide" /\ pc'[p] # "decide"
    BY DEF Reserve, Goto, IInv, TypeOK
  <1>2. PICK c : ProtectedChoice(p, c)
    BY DEF Reserve
  <1>3. PICK cursor : bound[p] \cap Top(Room(p)) = {} /\ PickOrBind(bindings, key, cursor, Top(eligible), c)
    BY <1>2 DEF ProtectedChoice, shared, Leaves
  <1>4. EvictedFor(k) \/ (k = key /\ key # None /\ ~Binds(bindings, key, Top(eligible)))
    <2> HIDE DEF key, eligible
    <2> QED
      BY <1>3, PickOrBindMoves DEF Bounded
  <1>5. ASSUME k = key, key # None, ~Binds(bindings, key, Top(eligible)) PROVE MovedBy(p, k)
    <2>1. old \notin Top(eligible)
      BY <1>5 DEF Binds
    <2>2. Keeps(p) = Top(Room(p))
      BY <1>1 DEF Keeps
    <2>3. ASSUME old \in Top(Room(p)) PROVE Overtaken(p, old)
      <3>1. old \notin bound[p]
        BY <1>3, <2>3
      <3>2. old \in sunk[p]
        BY <2>1, <2>3 DEF Top
      <3>3. Mixed(request[p])
        BY <1>1, <1>5, <3>1 DEF HeldInv, Held, Bound
      <3> QED
        BY <1>1, <3>1, <3>2, <3>3 DEF Overtaken
    <2> QED
      BY <1>1, <1>5, <2>2, <2>3 DEF MovedBy
  <1> QED
    BY <1>4, <1>5

\* No other step of a pick takes a candidate from a session.
LEMMA OtherStepsMoveNothing ==
  ASSUME NEW k \in DOMAIN bindings, Leaves(k), [Next]_vars,
         \A p \in Pickers : ~Choose(p) /\ ~LookUp(p) /\ ~Reserve(p)
  PROVE  \A p \in Pickers : pc[p] = "idle"
  <1>1. bindings' # bindings
    BY DEF Leaves
  <1>2. ASSUME NEW p \in Pickers, Prepare(p) \/ Filter(p) \/ Saturate(p) \/ PickFails(p) \/ EndPick(p)
        PROVE  bindings' = bindings
    BY <1>2 DEF Prepare, Filter, Saturate, PickFails, EndPick, shared
  <1>3. ASSUME \/ \E p \in Pickers, req \in Requests : StartPick(p, req)
               \/ \E c \in Codex : Release(c) \/ ChangeUsage(c)
               \/ \E row \in Rows : ChangeRestriction(row)
               \/ \E name \in Names : ChangeQuarantine(name)
               \/ Tick \/ UNCHANGED vars
        PROVE  bindings' = bindings
    BY <1>3 DEF StartPick, Release, ChangeUsage, ChangeRestriction, ChangeQuarantine, Tick, vars, shared
  <1>4. ASSUME NEW enabled, Reconfigure(enabled) PROVE \A p \in Pickers : pc[p] = "idle"
    BY <1>4 DEF Reconfigure
  <1> QED
    BY <1>1, <1>2, <1>3, <1>4 DEF Next, Pick

\* While its binding lives, a session loses its candidate only to a reconfiguration, to
\* an eviction, or in a pick of its own that filters it, finds it full or below the
\* highest tier, or, on a mixed route, was overtaken between its two looks at the
\* bindings: for any picks, sessions, candidates and limits.
THEOREM SessionsMoveForAReason == Spec => SessionMovesForAReason
  <1> DEFINE Moves == \A k \in DOMAIN bindings :
                        LET old == bindings[k].candidate
                        IN bindings[k].expires > clock /\ ~(k \in DOMAIN bindings' /\ bindings'[k].candidate = old) =>
                             \/ \A p \in Pickers : pc[p] = "idle"
                             \/ /\ k \notin DOMAIN bindings' /\ DOMAIN bindings' \ DOMAIN bindings # {}
                                /\ Cardinality(DOMAIN bindings) = MaxBindings
                             \/ \E p \in Pickers :
                                  /\ pc'[p] # pc[p] /\ AffinityKey(request[p]) = k
                                  /\ old \notin Keeps(p) \/ Overtaken(p, old)
  <1>1. IInv /\ HeldInv /\ Bounded /\ [Next]_vars => Moves
    <2> SUFFICES ASSUME IInv, HeldInv, Bounded, [Next]_vars,
                        NEW k \in DOMAIN bindings, Leaves(k), bindings[k].expires > clock
                 PROVE  \/ \A p \in Pickers : pc[p] = "idle"
                        \/ EvictedFor(k)
                        \/ \E p \in Pickers : MovedBy(p, k)
      BY DEF Leaves, EvictedFor, MovedBy
    <2>1. CASE \E p \in Pickers : Choose(p) \/ LookUp(p) \/ Reserve(p)
      BY <2>1, ChooseMoves, LookUpMoves, ReserveMoves
    <2>2. CASE \A p \in Pickers : ~Choose(p) /\ ~LookUp(p) /\ ~Reserve(p)
      BY <2>2, OtherStepsMoveNothing
    <2> QED
      BY <2>1, <2>2
  <1> QED
    BY <1>1, PicksInvariant, PTL DEF Spec, SessionMovesForAReason

-----------------------------------------------------------------------------
(* Rotation                                                                *)

\* The place of c in the order of the candidates of S, counted from 0.
Rank(S, c) == Cardinality({d \in S : d < c})

\* a and r are the same modulo m.
Congruent(a, r, m) == \E q \in Int : a = q * m + r

\* A set of candidates a cursor may rotate through.
IsTier(S) ==
  /\ S # {} /\ S \subseteq Candidates /\ IsFiniteSet(S)
  /\ \E d \in 1 .. Turns : Turns = d * Cardinality(S)

\* Those of T that had a turn are those just before the cursor n, modulo their number.
Served(n, T, H) ==
  \A c \in H : \E j \in 1 .. Cardinality(H) : Congruent(n - j, Rank(T, c), Cardinality(T))

CursorInv(k) ==
  /\ cursors[k].next \in 0 .. Turns - 1
  /\ IsTier(turn[k].tier) /\ turn[k].had \subseteq turn[k].tier
  /\ Served(cursors[k].next, turn[k].tier, turn[k].had)
  /\ ~turn[k].again

RotationInv == DOMAIN turn = DOMAIN cursors /\ \A k \in DOMAIN cursors : CursorInv(k)

\* The order of the identities numbers the candidates from 0.
LEMMA RankIsAPlace ==
  ASSUME NEW S \in SUBSET Nat, IsFiniteSet(S), NEW c \in S
  PROVE  /\ Rank(S, c) \in 0 .. Cardinality(S) - 1
         /\ \A d \in S : d < c => Rank(S, d) < Rank(S, c)
  <1> DEFINE below(x) == {d \in S : d < x}
  <1>1. \A x \in S : IsFiniteSet(below(x)) /\ Cardinality(below(x)) \in Nat
    <2> SUFFICES ASSUME NEW x \in S
                 PROVE  IsFiniteSet(below(x)) /\ Cardinality(below(x)) \in Nat
      OBVIOUS
    <2>1. below(x) \subseteq S
      OBVIOUS
    <2> QED
      BY <2>1, FS_Subset, FS_CardinalityType
  <1>2. Cardinality(S) \in Nat
    BY FS_CardinalityType
  <1>3. ASSUME NEW T \in SUBSET S, NEW x \in T
        PROVE  Cardinality(T \ {x}) = Cardinality(T) - 1 /\ Cardinality(T) \in Nat /\ IsFiniteSet(T \ {x})
    <2>1. IsFiniteSet(T)
      BY FS_Subset
    <2> QED
      BY <2>1, FS_RemoveElement, FS_CardinalityType
  <1>4. Rank(S, c) < Cardinality(S)
    <2>1. below(c) \subseteq S \ {c}
      OBVIOUS
    <2>2. Cardinality(S \ {c}) = Cardinality(S) - 1 /\ IsFiniteSet(S \ {c})
      BY <1>3
    <2>3. Cardinality(below(c)) <= Cardinality(S \ {c})
      BY <2>1, <2>2, FS_Subset
    <2> QED
      BY <1>1, <1>2, <2>2, <2>3 DEF Rank
  <1>5. ASSUME NEW d \in S, d < c
        PROVE  Rank(S, d) < Rank(S, c)
    <2>0. \A x \in S : x < d => x < c /\ x # d
      BY <1>5
    <2>1. below(d) \subseteq below(c) \ {d} /\ d \in below(c) /\ below(c) \subseteq S
      BY <1>5, <2>0
    <2>2. Cardinality(below(c) \ {d}) = Cardinality(below(c)) - 1 /\ IsFiniteSet(below(c) \ {d})
      <3> HIDE DEF below
      <3> QED
        BY <1>3, <2>1
    <2>3. Cardinality(below(d)) <= Cardinality(below(c) \ {d})
      BY <2>1, <2>2, FS_Subset
    <2> QED
      BY <1>1, <2>2, <2>3 DEF Rank
  <1> QED
    BY <1>1, <1>2, <1>4, <1>5 DEF Rank

\* Every place is taken, so the CHOOSE of Nth is of something.
LEMMA NthIsThere ==
  ASSUME NEW S \in SUBSET Nat, IsFiniteSet(S), NEW n \in 0 .. Cardinality(S) - 1
  PROVE  Nth(S, n) \in S /\ Rank(S, Nth(S, n)) = n
  <1> DEFINE f == [c \in S |-> Rank(S, c)]
             places == 0 .. Cardinality(S) - 1
  <1>1. Cardinality(S) \in Nat
    BY FS_CardinalityType
  <1>2. IsFiniteSet(places) /\ Cardinality(places) = Cardinality(S)
    <2>1. PICK k \in Int : k = Cardinality(S) - 1
      BY <1>1
    <2>2. IsFiniteSet(0 .. k)
      BY FS_Interval
    <2>3. Cardinality(0 .. k) = k + 1
      BY <1>1, <2>1, FS_Interval
    <2>4. k + 1 = Cardinality(S)
      BY <1>1, <2>1
    <2> QED
      BY <2>1, <2>2, <2>3, <2>4
  <1>3. f \in [S -> places]
    BY RankIsAPlace
  <1>4. \A c, d \in S : f[c] = f[d] => c = d
    <2> SUFFICES ASSUME NEW c \in S, NEW d \in S, c # d
                 PROVE  f[c] # f[d]
      OBVIOUS
    <2>1. c < d \/ d < c
      OBVIOUS
    <2>2. Rank(S, c) \in Int /\ Rank(S, d) \in Int
      BY <1>1, RankIsAPlace
    <2> QED
      BY <2>1, <2>2, RankIsAPlace
  <1>5. f \in Surjection(S, places)
    <2>1. f \in Injection(S, places)
      BY <1>3, <1>4 DEF Injection, IsInjective
    <2> HIDE DEF f, places
    <2> QED
      BY <1>2, <2>1, FS_Injection
  <1>6. PICK c \in S : Rank(S, c) = n
    BY <1>5 DEF Surjection
  <1> QED
    BY <1>6 DEF Nth, Rank

\* The modulus of the cursors is not zero.
LEMMA TurnsAreCounted == Turns \in Nat \ {0}
  OBVIOUS

\* Division with remainder.
LEMMA Euclid ==
  ASSUME NEW m \in Nat \ {0}, NEW n \in Nat
  PROVE  (n % m) \in 0 .. m - 1 /\ Congruent(n, n % m, m)
  <1>1. n = (n \div m) * m + (n % m) /\ n \div m \in Int
    OBVIOUS
  <1>2. (n % m) \in 0 .. m - 1
    OBVIOUS
  <1>3. Congruent(n, n % m, m)
    BY <1>1 DEF Congruent
  <1> QED
    BY <1>2, <1>3

\* Of the m places, the one a cursor points to is not one of the m - 1 before it.
LEMMA PlaceIsFree ==
  ASSUME NEW m \in Nat \ {0}, NEW n \in Nat, NEW j \in 1 .. m - 1
  PROVE  ~Congruent(n - j, n % m, m)
  <1>1. PICK e \in Int : n = e * m + (n % m)
    BY Euclid DEF Congruent
  <1> SUFFICES ASSUME NEW q \in Int, n - j = q * m + (n % m) PROVE FALSE
    BY DEF Congruent
  <1>2. j = (e - q) * m
    BY <1>1
  <1>3. PICK u \in Int : u = e - q
    OBVIOUS
  <1>4. CASE u <= 0
    BY <1>2, <1>3, <1>4
  <1>5. CASE u >= 1
    BY <1>2, <1>3, <1>5
  <1> QED
    BY <1>4, <1>5

\* What is j places behind a cursor is j + 1 behind it once it has moved, also when it
\* starts again from 0.
LEMMA PlacesMoveBack ==
  ASSUME NEW m \in Nat \ {0}, Congruent(Turns, 0, m), NEW n \in 0 .. Turns - 1,
         NEW j \in Int, NEW r \in Int, Congruent(n - j, r, m)
  PROVE  Congruent(Advanced(n) - (j + 1), r, m)
  <1>1. PICK q \in Int : n - j = q * m + r
    BY DEF Congruent
  <1>2. PICK d \in Int : Turns = d * m + 0
    BY DEF Congruent
  <1>3. CASE n + 1 < Turns
    <2>1. Advanced(n) - (j + 1) = q * m + r
      <3>1. Advanced(n) = n + 1
        BY <1>3 DEF Advanced
      <3>2. PICK x \in Int : x = q * m
        OBVIOUS
      <3> QED
        BY <1>1, <3>1, <3>2
    <2> QED
      BY <2>1 DEF Congruent
  <1>4. CASE n + 1 = Turns
    <2>1. PICK p \in Int : p = q - d
      OBVIOUS
    <2>2. p * m = q * m - d * m
      BY <2>1
    <2>3. Advanced(n) = 0
      BY <1>4 DEF Advanced
    <2>4. Advanced(n) - (j + 1) = p * m + r
      <3>1. PICK x \in Int, y \in Int : x = q * m /\ y = d * m
        OBVIOUS
      <3> QED
        BY <1>1, <1>2, <1>4, <2>2, <2>3, <3>1
    <2> QED
      BY <2>4 DEF Congruent
  <1> QED
    BY <1>3, <1>4

\* The candidate at the cursor had no turn yet, and the record of turns moves with it.
LEMMA NextIsUnserved ==
  ASSUME NEW S, IsTier(S), NEW n \in 0 .. Turns - 1, NEW H \in SUBSET S, H # S, Served(n, S, H),
         NEW c, c = Nth(S, n % Cardinality(S))
  PROVE  /\ c \in S /\ c \notin H
         /\ Advanced(n) \in 0 .. Turns - 1
         /\ Served(Advanced(n), S, H \cup {c})
  <1> DEFINE m == Cardinality(S)
             h == Cardinality(H)
             G == H \cup {c}
  <1>1. m \in Nat \ {0} /\ S \in SUBSET Nat /\ IsFiniteSet(S)
    <2>1. m \in Nat /\ m # 0
      BY FS_CardinalityType, FS_EmptySet DEF IsTier
    <2> QED
      BY <2>1 DEF IsTier
  <1>2. h \in Nat /\ h < m /\ IsFiniteSet(H)
    <2>1. IsFiniteSet(H) /\ h <= m /\ h # m
      BY <1>1, FS_Subset
    <2>2. h \in Nat
      BY <2>1, FS_CardinalityType
    <2> QED
      BY <1>1, <2>1, <2>2
  <1>3. n \in Nat /\ (n % m) \in 0 .. m - 1
    <2>1. n \in Nat
      BY TurnsAreCounted
    <2> HIDE DEF m
    <2> QED
      BY <1>1, <2>1, Euclid
  <1>4. c \in S /\ Rank(S, c) = n % m
    BY <1>1, <1>3, NthIsThere
  <1>5. c \notin H
    <2> SUFFICES ASSUME c \in H PROVE FALSE
      OBVIOUS
    <2>1. PICK j \in 1 .. h : Congruent(n - j, n % m, m)
      BY <1>4 DEF Served
    <2> HIDE DEF m, h
    <2>2. j \in 1 .. m - 1
      BY <1>1, <1>2
    <2> QED
      BY <1>1, <1>3, <2>1, <2>2, PlaceIsFree
  <1>6. Cardinality(G) = h + 1
    BY <1>2, <1>5, FS_AddElement
  <1>7. Congruent(Turns, 0, m)
    <2>1. PICK d \in 1 .. Turns : Turns = d * m
      BY DEF IsTier
    <2>2. d \in Int /\ d * m + 0 = d * m
      BY <1>1
    <2> QED
      BY <2>1, <2>2 DEF Congruent
  <1>8. Advanced(n) \in 0 .. Turns - 1
    BY DEF Advanced
  <1>9. ASSUME NEW x \in G
        PROVE  \E j \in 1 .. h + 1 : Congruent(Advanced(n) - j, Rank(S, x), m)
    <2>1. Rank(S, x) \in Int
      BY <1>1, <1>4, RankIsAPlace
    <2>2. PICK j \in 0 .. h : Congruent(n - j, Rank(S, x), m)
      <3>1. CASE x \in H
        BY <1>2, <3>1 DEF Served
      <3>2. CASE x = c
        <4>1. Congruent(n, Rank(S, x), m)
          BY <1>1, <1>3, <1>4, <3>2, Euclid
        <4>2. n - 0 = n /\ 0 \in 0 .. h
          BY <1>2, <1>3
        <4> QED
          BY <4>1, <4>2
      <3> QED
        BY <3>1, <3>2
    <2>3. Congruent(Advanced(n) - (j + 1), Rank(S, x), m)
      <3>1. m \in Nat \ {0} /\ j \in Int
        BY <1>1, <1>2
      <3> HIDE DEF m, h
      <3> QED
        BY <1>7, <2>1, <2>2, <3>1, PlacesMoveBack
    <2>4. j + 1 \in 1 .. h + 1
      BY <1>2
    <2> QED
      BY <2>3, <2>4
  <1> QED
    BY <1>4, <1>5, <1>6, <1>8, <1>9 DEF Served

\* What pruneLocked leaves is as it was.
LEMMA PrunedKeeps ==
  ASSUME NEW space, NEW kept \in Pruned(space), NEW k \in DOMAIN kept
  PROVE  k \in DOMAIN cursors /\ kept[k] = cursors[k]
  <1> DEFINE live == Without(cursors, Stale(cursors))
  <1>1. \A j \in DOMAIN live : j \in DOMAIN cursors /\ live[j] = cursors[j]
    BY WithoutKeeps
  <1>2. kept = live \/ \E j : kept = Without(live, {j})
    <2>1. kept \in {live} \/ kept \in {Without(live, {j}) : j \in Oldest(live)}
      BY DEF Pruned
    <2> HIDE DEF live
    <2> QED
      BY <2>1
  <1>3. k \in DOMAIN live /\ kept[k] = live[k]
    <2> HIDE DEF live
    <2>1. CASE kept = live
      BY <2>1
    <2>2. ASSUME NEW j, kept = Without(live, {j})
          PROVE  k \in DOMAIN live /\ kept[k] = live[k]
      BY <2>2, WithoutKeeps
    <2> QED
      BY <1>2, <2>1, <2>2
  <1> QED
    BY <1>1, <1>3

\* pickRotated keeps the record of every cursor, whatever it prunes.
LEMMA RotateKeeps ==
  ASSUME RotationInv, NEW key, NEW S, NEW c, IsTier(S), Rotate(key, S, c)
  PROVE  RotationInv'
  <1> DEFINE known == key \in DOMAIN cursors
             next == IF known THEN cursors[key].next ELSE 0
             before == TurnOf(key, S)
  <1>1. PICK kept : /\ \A k \in DOMAIN kept : k \in DOMAIN cursors /\ kept[k] = cursors[k]
                    /\ cursors' = [k \in DOMAIN kept \cup {key} |->
                         IF k = key THEN [next |-> Advanced(next), used |-> clock] ELSE kept[k]]
    BY PrunedKeeps DEF Rotate
  <1>2. turn' = [k \in DOMAIN cursors' |->
                  IF k = key THEN [tier |-> S, had |-> before \cup {c}, again |-> c \in before]
                  ELSE turn[k]]
    BY DEF Rotate
  <1>3. DOMAIN turn' = DOMAIN cursors'
    BY <1>2
  <1>4. ASSUME NEW k \in DOMAIN cursors', k # key
        PROVE  CursorInv(k)'
    <2>1. k \in DOMAIN cursors /\ cursors'[k] = cursors[k] /\ turn'[k] = turn[k]
      BY <1>1, <1>2, <1>4
    <2> QED
      BY <2>1 DEF RotationInv, CursorInv, IsTier, Served
  <1>5. CursorInv(key)'
    <2>1. next \in 0 .. Turns - 1
      BY DEF RotationInv, CursorInv
    <2>2. before \in SUBSET S /\ before # S /\ Served(next, S, before)
      <3>1. CASE before = {}
        BY <3>1 DEF IsTier, Served
      <3>2. CASE before # {}
        <4>1. key \in DOMAIN cursors /\ turn[key].tier = S /\ before = turn[key].had /\ before # S
          BY <3>2 DEF TurnOf
        <4> QED
          BY <4>1 DEF RotationInv, CursorInv
      <3> QED
        BY <3>1, <3>2
    <2>3. c = Nth(S, next % Cardinality(S))
      BY DEF Rotate
    <2>4. /\ c \in S /\ c \notin before /\ Advanced(next) \in 0 .. Turns - 1
          /\ Served(Advanced(next), S, before \cup {c})
      <3> HIDE DEF next, before
      <3> QED
        BY <2>1, <2>2, <2>3, NextIsUnserved
    <2>5. /\ cursors'[key].next = Advanced(next) /\ turn'[key].tier = S
          /\ turn'[key].had = before \cup {c} /\ turn'[key].again = (c \in before)
      BY <1>1, <1>2
    <2> HIDE DEF next, before
    <2>6. IsTier(S)' /\ before \cup {c} \subseteq S
      BY <2>2, <2>4 DEF IsTier
    <2>7. Served(cursors'[key].next, turn'[key].tier, turn'[key].had)
      BY <2>4, <2>5
    <2> QED
      BY <2>2, <2>4, <2>5, <2>6, <2>7 DEF CursorInv, IsTier
  <1> QED
    BY <1>3, <1>4, <1>5 DEF RotationInv

\* The best of any candidates a pick still has are a tier.
LEMMA BestIsTier ==
  ASSUME IInv, OriginInv, NEW p \in Pickers, pc[p] # "idle", NEW S \in SUBSET remaining[p],
         NEW c \in Top(S)
  PROVE  IsTier(Top(S))
  <1>1. /\ request[p] \in Requests /\ request[p] \in scene.requests /\ scene \in Scenes
        /\ S \subseteq request[p].offered
    BY DEF IInv, PickInv, PickKnows, OriginInv, Origin
  <1>2. Top(S) \subseteq S /\ S # {}
    BY DEF Top
  <1>3. IsFiniteSet(Top(S)) /\ Top(S) \subseteq Candidates
    BY <1>1, <1>2, FS_Subset
  <1>4. \E d \in 1 .. Turns : Turns = d * Cardinality(Top(S))
    BY <1>1, <1>2, TurnsAssumption
  <1> QED
    BY <1>3, <1>4 DEF IsTier

\* pickOrBind rotates through a tier, or leaves the cursors alone.
LEMMA PickOrBindRotates ==
  ASSUME RotationInv, NEW b, NEW key, NEW cursor, NEW S, NEW c, IsTier(S),
         PickOrBind(b, key, cursor, S, c)
  PROVE  RotationInv'
  <1>1. CASE UNCHANGED << cursors, turn >>
    BY <1>1 DEF RotationInv, CursorInv
  <1>2. CASE Rotate(cursor, S, c)
    BY <1>2, RotateKeeps
  <1> QED
    BY <1>1, <1>2 DEF PickOrBind

\* There are no cursors at the start.
LEMMA RotationInit == Init => RotationInv
  BY DEF Init, RotationInv

\* Only Choose and Reserve rotate, both through the best of what their pick still has.
LEMMA RotationStep == IInv /\ OriginInv /\ RotationInv /\ [Next]_vars => RotationInv'
  <1> SUFFICES ASSUME IInv, OriginInv, RotationInv, [Next]_vars PROVE RotationInv'
    OBVIOUS
  <1>1. ASSUME UNCHANGED << cursors, turn >> PROVE RotationInv'
    BY <1>1 DEF RotationInv, CursorInv
  <1>2. ASSUME NEW p \in Pickers, Choose(p) PROVE RotationInv'
    <2>1. pc[p] # "idle" /\ \E c \in Top(remaining[p]) : \E key, cursor :
            PickOrBind(bindings, key, cursor, Top(remaining[p]), c)
      BY <1>2 DEF Choose
    <2> QED
      BY <2>1, BestIsTier, PickOrBindRotates
  <1>3. ASSUME NEW p \in Pickers, Reserve(p) PROVE RotationInv'
    <2> DEFINE normal == Room(p) \ sunk[p]
               eligible == IF normal # {} THEN normal ELSE Room(p)
    <2>1. pc[p] # "idle" /\ \E c : ProtectedChoice(p, c)
      BY <1>3 DEF Reserve
    <2>2. \/ UNCHANGED << cursors, turn >>
          \/ \E c \in Top(eligible) : \E key, cursor : PickOrBind(bindings, key, cursor, Top(eligible), c)
      BY <2>1 DEF ProtectedChoice, shared
    <2>3. eligible \subseteq remaining[p]
      BY DEF Room, Protected, Top
    <2> HIDE DEF eligible
    <2> QED
      BY <1>1, <2>1, <2>2, <2>3, BestIsTier, PickOrBindRotates
  <1>4. ASSUME NEW p \in Pickers,
               Prepare(p) \/ Filter(p) \/ LookUp(p) \/ Saturate(p) \/ PickFails(p) \/ EndPick(p)
        PROVE  RotationInv'
    BY <1>1, <1>4 DEF Prepare, Filter, LookUp, Saturate, PickFails, EndPick, shared
  <1>5. ASSUME \/ \E p \in Pickers, req \in Requests : StartPick(p, req)
               \/ \E c \in Codex : Release(c) \/ ChangeUsage(c)
               \/ \E row \in Rows : ChangeRestriction(row)
               \/ \E name \in Names : ChangeQuarantine(name)
               \/ \E enabled \in BOOLEAN : Reconfigure(enabled)
               \/ Tick \/ UNCHANGED vars
        PROVE  RotationInv'
    <2>1. UNCHANGED << cursors, turn >>
      BY <1>5 DEF StartPick, Release, ChangeUsage, ChangeRestriction, ChangeQuarantine, Reconfigure,
                  Tick, vars, shared
    <2> QED
      BY <1>1, <2>1
  <1> QED
    BY <1>2, <1>3, <1>4, <1>5 DEF Next, Pick

\* While a tier stays the same, its cursor serves everybody in it before it serves
\* anybody again, for any number of candidates, sessions, routes and concurrent picks,
\* and across the pruning of other cursors and the wrap of its own counter.
THEOREM CursorsRotateFairly == Spec => []RotationIsFair
  <1>1. RotationInv => RotationIsFair
    BY DEF RotationInv, CursorInv, RotationIsFair
  <1> QED
    BY <1>1, PicksInvariant, RotationInit, RotationStep, PTL DEF Spec

=============================================================================
