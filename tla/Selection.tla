----------------------------- MODULE Selection ------------------------------
(***************************************************************************)
(* How one plugin process answers a pick: which candidates of a request    *)
(* remain (route, status, privacy quarantine, restrictions), whether the   *)
(* host may choose by itself, and which candidate the plugin chooses:      *)
(* rotation within the highest tier, session affinity, and the protection  *)
(* of Codex accounts, whose transactions AccountProtection models in       *)
(* detail.  Concurrent picks share the bindings, the cursors and the       *)
(* reservations; what they filter with changes while they run.             *)
(***************************************************************************)
EXTENDS Integers, FiniteSets, Functions

CONSTANTS
  Pickers,      \* concurrent scheduler.pick calls
  Requests,     \* the requests the host sends
  Candidates,   \* numbered in the order of their rotation identities
  Provider,     \* the provider of a candidate
  Priority,     \* its priority
  Broad,        \* the aliases of a candidate
  Strict,       \* its strict aliases: those of its credential file
  Rows,         \* restrictions that may be active: [strict, aliases]
  Limit,        \* concurrency limit of every Codex account
  MaxCursors,   \* schedulerRotationMaxCursors
  CursorTTL,    \* schedulerRotationCursorTTL
  PruneEvery,   \* 256: picks between two prunings
  Turns,        \* modulus of a cursor, a multiple of the size of every tier
  MaxBindings,  \* schedulerAffinityMaxBindings
  BindingTTL,   \* schedulerAffinityTTL
  EvictSample,  \* schedulerAffinityEvictSample
  Horizon,      \* bound on the clock
  MaxChanges,   \* bound on the changes of what picks filter with
  MaxPicks,     \* bound on the picks of a behaviour
  Scenes,       \* [requests, changes]: the requests of a behaviour, what changes in it
  None

ASSUME SelectionAssumption ==
  /\ Candidates \subseteq Nat
  /\ {Limit, MaxCursors, CursorTTL, PruneEvery, Turns, MaxBindings, BindingTTL, EvictSample} \subseteq Nat \ {0}
  /\ \A c \in Candidates : Priority[c] \in Int
  /\ \A req \in Requests : /\ req.offered \subseteq Candidates
                            /\ IsFiniteSet(req.offered) /\ IsFiniteSet(req.declared)
  /\ \A r \in Rows : r.strict \in BOOLEAN

VARIABLES
  clock,      \* seconds
  bindings,   \* schedulerAffinityManager.bindings
  cursors,    \* schedulerRotationManager.cursors
  operations, \* schedulerRotationManager.operations, modulo PruneEvery
  inflight,   \* unexpired reservations per Codex candidate
  demoted,    \* the Codex candidates over their token threshold
  restricted, \* the rows of the served snapshots
  quarantine, \* the quarantined providers
  protection, \* AccountProtectionEnabled
  pc,         \* per pick: where it is, or how it ended
  request,    \* per pick: its request
  remaining,  \* per pick: the candidates it may still choose
  available,  \* per pick: the candidates that passed every filter
  protects,   \* the picks for which Codex candidates are protected
  chosen,     \* per pick: the candidate it chose
  bound,      \* per pick: the candidate its session was found bound to, if any
  full,       \* per pick: candidates found without room, in every tier so far
  sunk,       \* per pick: candidates found demoted
  turn,       \* history, per cursor: the tier it last served, and who had a turn
  last,       \* history, per session: the candidate last returned
  changes, picks, \* changes and picks so far
  scene

shared == << bindings, cursors, operations, turn >>
filters == << demoted, restricted, quarantine, protection >>
locals == << request, remaining, available, protects, chosen, bound, full, sunk >>
vars == << clock, shared, inflight, filters, pc, locals, last, changes, picks, scene >>

Codex == {c \in Candidates : Provider[c] = "codex"}
Ended == {"delegated", "rejected", "saturated", "returned", "failed"}
Names == {Provider[c] : c \in Candidates}

Init ==
  /\ clock = 0
  /\ bindings = << >> /\ cursors = << >> /\ operations = 0 /\ turn = << >>
  /\ inflight = [c \in Codex |-> 0]
  /\ demoted = {} /\ restricted = {} /\ quarantine = {}
  /\ protection \in BOOLEAN
  /\ pc = [p \in Pickers |-> "idle"]
  /\ request = [p \in Pickers |-> None]
  /\ remaining = [p \in Pickers |-> {}] /\ available = [p \in Pickers |-> {}]
  /\ protects = {}
  /\ chosen = [p \in Pickers |-> None] /\ bound = [p \in Pickers |-> {}]
  /\ full = [p \in Pickers |-> {}] /\ sunk = [p \in Pickers |-> {}]
  /\ last = << >>
  /\ changes = 0 /\ picks = 0
  /\ scene \in Scenes

-----------------------------------------------------------------------------
(* What remains of a request                                               *)

\* schedulerAllowedProviders: a route names its provider, a mixed one declares them.
Routed(req) == req.route \in Names
Conflicting(req) == Routed(req) /\ req.declared \ {req.route} # {}
Allowed(req) == IF Routed(req) THEN {req.route} ELSE req.declared
Mixed(req) == Cardinality(Allowed(req)) > 1
Kind(req) == IF Cardinality(Allowed(req)) = 1 THEN CHOOSE a \in Allowed(req) : TRUE ELSE "mixed"

\* Candidates off the route or not active, and those of quarantined providers.
Kept(req) == {c \in req.offered \ req.inactive : Provider[c] \in Allowed(req) \ quarantine}
\* forceHandle: the plugin has to choose, as the host sees every candidate.
Forced(req) == Kept(req) # req.offered

\* A row that identifies a credential file is compared with the file of the
\* candidate, any other one with all its aliases.
Matches(row, c) == row.aliases \cap (IF row.strict THEN Strict[c] ELSE Broad[c]) # {}
Restricted(c) == Provider[c] \in {"codex", "xai"} /\ \E row \in restricted : Matches(row, c)
Unrestricted(S) == {c \in S : ~Restricted(c)}

-----------------------------------------------------------------------------
(* Rotation and affinity                                                   *)

Top(S) == {c \in S : \A d \in S : Priority[d] <= Priority[c]}
\* No tier that can be rotated has its turns cut short when its cursor starts again
\* from 0 (in the code after 2^64 picks).
ASSUME TurnsAssumption ==
  \A s \in Scenes : \A req \in s.requests : \A S \in (SUBSET req.offered) \ {{}} :
    \E d \in 1 .. Turns : Turns = d * Cardinality(Top(S))

\* The n-th candidate in the order of the identities, n counted from 0.
Nth(S, n) == CHOOSE c \in S : Cardinality({d \in S : d < c}) = n

Without(f, ks) == Restrict(f, DOMAIN f \ ks)
Stale(f) == {k \in DOMAIN f : f[k].used <= clock - CursorTTL}
Oldest(f) == {k \in DOMAIN f : \A j \in DOMAIN f : f[k].used <= f[j].used}

\* Mutant of Pruned: the oldest cursor goes only when the map exceeds its bound.
PrunedLate(requireSpace) ==
  LET live == Without(cursors, Stale(cursors))
  IN IF requireSpace /\ Cardinality(DOMAIN live) > MaxCursors
       THEN {Without(live, {k}) : k \in Oldest(live)}
       ELSE {live}

\* pruneLocked: the cursors it may leave.
Pruned(requireSpace) ==
  LET live == Without(cursors, Stale(cursors))
  IN IF requireSpace /\ Cardinality(DOMAIN live) >= MaxCursors
       THEN {Without(live, {k}) : k \in Oldest(live)}
       ELSE {live}

\* History: the turns of a cursor start afresh with another tier, once everybody
\* had one, and when the cursor was dropped.
TurnOf(key, S) ==
  IF key \in DOMAIN cursors /\ key \in DOMAIN turn /\ turn[key].tier = S /\ turn[key].had # S
    THEN turn[key].had
    ELSE {}

\* Mutant of Advanced: the cursor is written back before it is incremented.
AdvancedNot(n) == n

Advanced(n) == (n + 1) % Turns

\* pickRotated: S is a tier.
Rotate(key, S, c) ==
  LET known == key \in DOMAIN cursors
      next == IF known THEN cursors[key].next ELSE 0
      before == TurnOf(key, S)
  IN /\ c = Nth(S, next % Cardinality(S))
     /\ operations' = (operations + 1) % PruneEvery
     /\ \E kept \in IF ~known /\ Cardinality(DOMAIN cursors) >= MaxCursors THEN Pruned(TRUE)
                    ELSE IF operations' = 0 THEN Pruned(FALSE)
                    ELSE {cursors} :
          cursors' = [k \in DOMAIN kept \cup {key} |->
                        IF k = key THEN [next |-> Advanced(next), used |-> clock] ELSE kept[k]]
     /\ turn' = [k \in DOMAIN cursors' |->
                   IF k = key THEN [tier |-> S, had |-> before \cup {c}, again |-> c \in before]
                   ELSE turn[k]]

\* The affinity key of a session: provider kind and session, or None.
AffinityKey(req) == IF req.session = None THEN None ELSE << Kind(req), req.session >>
\* The key of a cursor.  The suffix of a protected pick ends up behind the affinity
\* key that is packed into the same string, and is dropped with it: a pick of a
\* session always uses the plain cursor of its kind.
Cursor(req, suffix) == << Kind(req), IF req.session = None THEN suffix ELSE "all" >>
Binds(b, key, S) ==
  key # None /\ key \in DOMAIN b /\ b[key].expires > clock /\ b[key].candidate \in S
Bind(b, key, c) == [k \in DOMAIN b \cup {key} |->
  IF k = key THEN [candidate |-> c, expires |-> clock + BindingTTL] ELSE b[k]]

\* schedulerAffinityManager.pick: refreshes a binding, or drops an unusable one.
LookedUp(b, key, S) ==
  IF Binds(b, key, S) THEN Bind(b, key, b[key].candidate) ELSE Without(b, {key})

\* evictOneLocked: an expired binding it comes across, or the one of a sample of
\* the map that expires first.
Evicted(b) ==
  LET lapsed == {k \in DOMAIN b : b[k].expires <= clock}
      size == IF Cardinality(DOMAIN b) < EvictSample THEN Cardinality(DOMAIN b) ELSE EvictSample
      samples == {s \in SUBSET (DOMAIN b \ lapsed) : Cardinality(s) = size}
      first(s) == {k \in s : \A j \in s : b[k].expires <= b[j].expires}
  IN IF Cardinality(DOMAIN b) < MaxBindings THEN {b}
     ELSE {Without(b, {k}) : k \in lapsed \cup UNION {first(s) : s \in samples}}

\* pickOrBind, under affinity.mu, which it holds while it rotates.
PickOrBind(b, key, cursor, S, c) ==
  IF Binds(b, key, S)
    THEN c = b[key].candidate /\ bindings' = LookedUp(b, key, S) /\ UNCHANGED << cursors, operations, turn >>
    ELSE /\ Rotate(cursor, S, c)
         /\ IF key = None THEN bindings' = b
            ELSE \E kept \in Evicted(Without(b, {key})) : bindings' = Bind(kept, key, c)

-----------------------------------------------------------------------------
(* A pick                                                                  *)

Goto(p, l) == pc' = [pc EXCEPT ![p] = l]
Stays == UNCHANGED << clock, inflight, filters, changes, picks, scene >>

StartPick(p, req) ==
  /\ pc[p] = "idle" /\ picks < MaxPicks /\ req \in scene.requests
  /\ Goto(p, "prepare")
  /\ request' = [request EXCEPT ![p] = req]
  /\ picks' = picks + 1
  /\ UNCHANGED << clock, shared, inflight, filters, remaining, available, protects, chosen, bound, full, sunk, last, changes, scene >>

\* prepareSchedulerRequest loads the quarantine once.
Unroutable(req) ==
  \/ Conflicting(req)
  \/ Allowed(req) = {} /\ req.offered # {}
  \/ Cardinality(Allowed(req)) = 1 /\ Allowed(req) \subseteq quarantine
  \/ Kept(req) = {} /\ req.offered # {}
\* Mutant of Prepare: forceHandle forgets the candidates of quarantined providers.
PrepareUnforced(p) ==
  LET req == request[p]
  IN /\ pc[p] = "prepare"
     /\ IF Unroutable(req) THEN Goto(p, "rejected") /\ UNCHANGED << remaining, available >>
        ELSE IF req.offered = {} THEN Goto(p, "delegated") /\ UNCHANGED << remaining, available >>
        ELSE /\ Goto(p, IF {c \in req.offered \ req.inactive : Provider[c] \in Allowed(req)} # req.offered
                          THEN "forced" ELSE "filter")
             /\ remaining' = [remaining EXCEPT ![p] = Kept(req)]
             /\ available' = [available EXCEPT ![p] = Kept(req)]
     /\ Stays /\ UNCHANGED << shared, request, protects, chosen, bound, full, sunk, last >>

Prepare(p) ==
  LET req == request[p]
  IN /\ pc[p] = "prepare"
     /\ IF Unroutable(req) THEN Goto(p, "rejected") /\ UNCHANGED << remaining, available >>
        ELSE IF req.offered = {} THEN Goto(p, "delegated") /\ UNCHANGED << remaining, available >>
        ELSE /\ Goto(p, IF Forced(req) THEN "forced" ELSE "filter")
             /\ remaining' = [remaining EXCEPT ![p] = Kept(req)]
             /\ available' = [available EXCEPT ![p] = Kept(req)]
     /\ Stays /\ UNCHANGED << shared, request, protects, chosen, bound, full, sunk, last >>

\* The restrictions are those of a snapshot; a pick that has nothing to filter,
\* to protect or to hide lets the host choose.
Filter(p) ==
  LET rest == Unrestricted(remaining[p])
      protect == protection /\ remaining[p] \cap Codex # {}
  IN /\ pc[p] \in {"filter", "forced"}
     /\ remaining' = [remaining EXCEPT ![p] = rest]
     /\ available' = [available EXCEPT ![p] = rest]
     /\ protects' = IF protect THEN protects \cup {p} ELSE protects
     /\ Goto(p, IF rest = remaining[p] /\ ~protect /\ pc[p] = "filter" THEN "delegated"
                ELSE IF rest = {} THEN "rejected"
                ELSE IF protect /\ ~Mixed(request[p]) THEN "protect"
                ELSE "choose")
     /\ Stays /\ UNCHANGED << shared, request, chosen, bound, full, sunk, last >>

\* History: what a session gets.
Returns(p, c) ==
  /\ chosen' = [chosen EXCEPT ![p] = c]
  /\ LET key == AffinityKey(request[p])
     IN last' = IF key = None THEN last
                ELSE [k \in DOMAIN last \cup {key} |-> IF k = key THEN c ELSE last[k]]

\* pickSchedulerCandidate; a protected Codex candidate has to be reserved first.
Choose(p) ==
  /\ pc[p] = "choose"
  /\ \E c \in Top(remaining[p]) :
       /\ PickOrBind(bindings, AffinityKey(request[p]), Cursor(request[p], "all"), Top(remaining[p]), c)
       /\ IF p \in protects /\ c \in Codex
            THEN Goto(p, "protect") /\ UNCHANGED << chosen, last >>
            ELSE Goto(p, "returned") /\ Returns(p, c)
  /\ Stays /\ UNCHANGED << request, remaining, available, protects, bound, full, sunk >>

\* The candidates pickProtectedAuth is called with.
Protected(p) == IF Mixed(request[p]) THEN Codex \cap Top(remaining[p]) ELSE remaining[p]
HasRoom(c) == inflight[c] < Limit

\* Mutant of LookUp: it does not wait for pickMu.
LookUpUnlocked(p) ==
  LET key == AffinityKey(request[p])
      S == Protected(p)
  IN /\ pc[p] = "protect"
     /\ Goto(p, "decide")
     /\ bindings' = IF key = None THEN bindings ELSE LookedUp(bindings, key, S)
     /\ bound' = [bound EXCEPT ![p] = IF Binds(bindings, key, S) THEN {bindings[key].candidate} ELSE {}]
     /\ full' = [full EXCEPT ![p] = @ \cup {c \in S : ~HasRoom(c)}]
     /\ sunk' = [sunk EXCEPT ![p] = demoted]
     /\ Stays
     /\ UNCHANGED << cursors, operations, turn, request, remaining, available, protects, chosen, last >>

\* pickProtectedAuth, under pickMu and the writer lock, reads the reservations, and
\* chooseProtectedCandidate looks the session up.  It decides later, and the Choose of
\* another mixed pick, which needs neither lock, may bind the session in between.
LookUp(p) ==
  LET key == AffinityKey(request[p])
      S == Protected(p)
  IN /\ pc[p] = "protect" /\ \A q \in Pickers : pc[q] # "decide"
     /\ Goto(p, "decide")
     /\ bindings' = IF key = None THEN bindings ELSE LookedUp(bindings, key, S)
     /\ bound' = [bound EXCEPT ![p] = IF Binds(bindings, key, S) THEN {bindings[key].candidate} ELSE {}]
     /\ full' = [full EXCEPT ![p] = @ \cup {c \in S : ~HasRoom(c)}]
     /\ sunk' = [sunk EXCEPT ![p] = demoted]
     /\ Stays
     /\ UNCHANGED << cursors, operations, turn, request, remaining, available, protects, chosen, last >>

\* The candidates with room, as read.
Room(p) == Protected(p) \ full[p]

\* Mutant of ProtectedChoice: a session keeps its candidate while that has room,
\* even if one of a higher tier has room again.
ProtectedChoiceSticky(p, c) ==
  LET normal == Room(p) \ sunk[p]
      eligible == IF normal # {} THEN normal ELSE Room(p)
  IN IF bound[p] \cap Room(p) # {}
       THEN c \in bound[p] /\ UNCHANGED shared
       ELSE /\ c \in Top(eligible)
            /\ PickOrBind(bindings, AffinityKey(request[p]),
                          Cursor(request[p], IF normal # {} THEN "normal" ELSE "demoted"), Top(eligible), c)

\* chooseProtectedCandidate: the candidate found bound if none with room is preferred
\* to it, else one that is not demoted, else any with room, by a second look at the
\* bindings.
ProtectedChoice(p, c) ==
  LET normal == Room(p) \ sunk[p]
      eligible == IF normal # {} THEN normal ELSE Room(p)
  IN IF bound[p] \cap Top(Room(p)) # {}
       THEN c \in bound[p] \cap Top(Room(p)) /\ UNCHANGED shared
       ELSE /\ c \in Top(eligible)
            /\ PickOrBind(bindings, AffinityKey(request[p]),
                          Cursor(request[p], IF normal # {} THEN "normal" ELSE "demoted"), Top(eligible), c)

\* The reservation is committed, or fails after the session was bound.
Reserve(p) ==
  /\ pc[p] = "decide" /\ Room(p) # {}
  /\ \E c \in Room(p) :
       /\ ProtectedChoice(p, c)
       /\ \/ /\ Goto(p, "returned") /\ Returns(p, c)
             /\ inflight' = [inflight EXCEPT ![c] = @ + 1]
          \/ Goto(p, "failed") /\ UNCHANGED << chosen, last, inflight >>
  /\ UNCHANGED << clock, filters, request, remaining, available, protects, bound, full, sunk >>
  /\ UNCHANGED << changes, picks, scene >>

\* Mutant of Saturate: the whole tier is removed with its Codex candidates.
SaturateTier(p) ==
  LET rest == IF Mixed(request[p]) THEN remaining[p] \ Top(remaining[p]) ELSE {}
  IN /\ pc[p] = "decide" /\ Room(p) = {}
     /\ \/ /\ Goto(p, IF rest = {} THEN "saturated" ELSE "choose")
           /\ remaining' = [remaining EXCEPT ![p] = rest]
        \/ Goto(p, "failed") /\ UNCHANGED remaining
     /\ Stays /\ UNCHANGED << shared, request, available, protects, chosen, bound, full, sunk, last >>

\* No room: a mixed pick goes on without the Codex candidates of this tier, once the
\* transaction has committed.
Saturate(p) ==
  LET rest == IF Mixed(request[p]) THEN remaining[p] \ Protected(p) ELSE {}
  IN /\ pc[p] = "decide" /\ Room(p) = {}
     /\ \/ /\ Goto(p, IF rest = {} THEN "saturated" ELSE "choose")
           /\ remaining' = [remaining EXCEPT ![p] = rest]
        \/ Goto(p, "failed") /\ UNCHANGED remaining
     /\ Stays /\ UNCHANGED << shared, request, available, protects, chosen, bound, full, sunk, last >>

\* The database cannot be read, or the lock is not obtained in time.
PickFails(p) ==
  /\ pc[p] \in {"filter", "forced", "protect"}
  /\ Goto(p, "failed")
  /\ Stays /\ UNCHANGED << shared, locals, last >>

EndPick(p) ==
  /\ pc[p] \in Ended
  /\ Goto(p, "idle")
  /\ request' = [request EXCEPT ![p] = None]
  /\ remaining' = [remaining EXCEPT ![p] = {}] /\ available' = [available EXCEPT ![p] = {}]
  /\ protects' = protects \ {p}
  /\ chosen' = [chosen EXCEPT ![p] = None]
  /\ bound' = [bound EXCEPT ![p] = {}]
  /\ full' = [full EXCEPT ![p] = {}] /\ sunk' = [sunk EXCEPT ![p] = {}]
  /\ Stays /\ UNCHANGED << shared, last >>

Pick(p) ==
  \/ Prepare(p) \/ Filter(p) \/ Choose(p) \/ LookUp(p) \/ Reserve(p) \/ Saturate(p)
  \/ PickFails(p) \/ EndPick(p)

-----------------------------------------------------------------------------
(* What changes under a pick                                               *)

Changing(kind) == kind \in scene.changes /\ changes < MaxChanges /\ changes' = changes + 1

\* A usage callback, or a reservation that expires.
Release(c) ==
  /\ inflight[c] > 0
  /\ inflight' = [inflight EXCEPT ![c] = @ - 1]
  /\ UNCHANGED << clock, shared, filters, pc, locals, last, changes, picks, scene >>

Toggle(S, x) == IF x \in S THEN S \ {x} ELSE S \cup {x}
ChangeRestriction(row) ==
  /\ Changing("restriction")
  /\ restricted' = Toggle(restricted, row)
  /\ UNCHANGED << clock, shared, inflight, demoted, quarantine, protection, pc, locals, last, picks, scene >>
ChangeQuarantine(name) ==
  /\ Changing("quarantine")
  /\ quarantine' = Toggle(quarantine, name)
  /\ UNCHANGED << clock, shared, inflight, demoted, restricted, protection, pc, locals, last, picks, scene >>
ChangeUsage(c) ==
  /\ Changing("usage")
  /\ demoted' = Toggle(demoted, c)
  /\ UNCHANGED << clock, shared, inflight, restricted, quarantine, protection, pc, locals, last, picks, scene >>

\* configurePlugin waits for the picks, forgets the bindings and keeps the cursors.
Reconfigure(enabled) ==
  /\ Changing("configuration")
  /\ \A p \in Pickers : pc[p] = "idle"
  /\ protection' = enabled
  /\ bindings' = << >> /\ last' = << >>
  /\ UNCHANGED << clock, cursors, operations, turn, inflight, demoted, restricted, quarantine, pc, locals, picks, scene >>

Tick ==
  /\ clock < Horizon
  /\ clock' = clock + 1
  /\ UNCHANGED << shared, inflight, filters, pc, locals, last, changes, picks, scene >>

Next ==
  \/ \E p \in Pickers : Pick(p) \/ \E req \in Requests : StartPick(p, req)
  \/ \E c \in Codex : Release(c) \/ ChangeUsage(c)
  \/ \E row \in Rows : ChangeRestriction(row)
  \/ \E name \in Names : ChangeQuarantine(name)
  \/ \E enabled \in BOOLEAN : Reconfigure(enabled)
  \/ Tick

Spec == Init /\ [][Next]_vars

-----------------------------------------------------------------------------
(* Properties                                                              *)

TypeOK ==
  /\ pc \in [Pickers -> {"idle", "prepare", "filter", "forced", "choose", "protect", "decide"} \cup Ended]
  /\ request \in [Pickers -> Requests \cup {None}]
  /\ remaining \in [Pickers -> SUBSET Candidates] /\ available \in [Pickers -> SUBSET Candidates]
  /\ chosen \in [Pickers -> Candidates \cup {None}]
  /\ bound \in [Pickers -> SUBSET Candidates]
  /\ full \in [Pickers -> SUBSET Candidates] /\ sunk \in [Pickers -> SUBSET Codex]
  /\ protects \subseteq Pickers /\ demoted \subseteq Codex

\* Both maps stay within their bounds, whatever sessions and routes come, and
\* although an eviction and the insertion after it see different times.
MapsBounded ==
  Cardinality(DOMAIN cursors) <= MaxCursors /\ Cardinality(DOMAIN bindings) <= MaxBindings

\* The host is left to choose among the candidates it sent only if the plugin
\* would have removed none of them, nor protected one.
DelegatesOnlyUnfiltered ==
  \A p \in Pickers : pc[p] = "delegated" =>
    available[p] = request[p].offered /\ p \notin protects

\* The candidate returned passed every filter; a higher tier was passed over only
\* for Codex candidates found full, or demoted while the one returned was not.
ReturnsBestAvailable ==
  \A p \in Pickers : pc[p] = "returned" =>
    /\ chosen[p] \in available[p]
    /\ \A d \in available[p] : Priority[d] > Priority[chosen[p]] =>
         d \in full[p] \/ (d \in sunk[p] /\ chosen[p] \notin sunk[p])

\* A pick is refused for saturation only if each candidate it could have returned
\* is a Codex account it found full: one of another provider, or of a lower tier,
\* is always tried.
SaturationIsTotal ==
  \A p \in Pickers : pc[p] = "saturated" => available[p] \subseteq full[p]

\* Within a tier that stays the same a cursor serves everybody before it serves
\* anybody again, whatever sessions and other routes do in between.
RotationIsFair == \A k \in DOMAIN turn : ~turn[k].again

\* The candidates at which p leaves its session: a look-up any candidate the pick has
\* not filtered, nor put aside with those of other providers, a choice those of the
\* highest tier left, or left with room.
Keeps(p) ==
  IF pc[p] = "protect" THEN Protected(p) ELSE Top(IF pc[p] = "decide" THEN Room(p) ELSE remaining[p])

\* Of a mixed route, another pick has bound the session to a demoted account after p
\* had looked it up.
Overtaken(p, old) == pc[p] = "decide" /\ Mixed(request[p]) /\ old \in sunk[p] \ bound[p]

\* A session loses its candidate only when the plugin is configured anew, when another
\* session needs the place of its binding, or by a pick of its own that filters the
\* candidate, finds it full or below the highest tier, or was overtaken.
SessionMovesForAReason ==
  [][\A k \in DOMAIN bindings :
       LET old == bindings[k].candidate
       IN bindings[k].expires > clock /\ ~(k \in DOMAIN bindings' /\ bindings'[k].candidate = old) =>
            \/ \A p \in Pickers : pc[p] = "idle"
            \/ /\ k \notin DOMAIN bindings' /\ DOMAIN bindings' \ DOMAIN bindings # {}
               /\ Cardinality(DOMAIN bindings) = MaxBindings
            \/ \E p \in Pickers :
                 /\ pc'[p] # pc[p] /\ AffinityKey(request[p]) = k
                 /\ old \notin Keeps(p) \/ Overtaken(p, old)]_vars

\* CHANGELOG.md: a session is moved from its Codex credential only when that is at
\* its hard limit.  Filtered credentials, and those that yield to a higher tier
\* with room, are left aside here.
SessionMovesOnlyWhenFull ==
  [][\A p \in Pickers :
       LET key == AffinityKey(request[p])
       IN pc'[p] = "returned" /\ pc[p] # "returned" /\ key \in DOMAIN last /\ last[key] \in Codex =>
            \/ chosen'[p] = last[key]
            \/ last[key] \notin available[p] \/ last[key] \in full'[p]
            \/ \E d \in available[p] \ full'[p] : Priority[d] > Priority[last[key]]]_vars

=============================================================================
