------------------------- MODULE AccountProtection -------------------------
(***************************************************************************)
(* The account-protection reservations: every scheduler.pick for Codex     *)
(* takes one reservation of the account it selects, in a BEGIN IMMEDIATE   *)
(* transaction on a table that several plugin processes share, and every   *)
(* usage callback gives one back.  A reservation whose callback never      *)
(* arrives leaves the count when its TTL is over.                          *)
(*                                                                         *)
(* A pick is split where another actor can come between: reading the       *)
(* clock, taking the in-process pickMu, taking SQLite's writer lock,       *)
(* deciding inside the transaction, committing.  All the statements of one *)
(* transaction read the committed rows and the time read at the start, and *)
(* no other writer is let in, so they are one step (Decide).               *)
(***************************************************************************)
EXTENDS Integers, FiniteSets

CONSTANTS
  Processes,        \* plugin processes on one SQLite file
  Pickers,          \* concurrent scheduler.pick calls
  Accounts,         \* Codex auths
  None,             \* "no account", "no holder", "never"
  ProcessOf,        \* the process a picker runs in
  Limits,           \* the concurrency limits an account's plan can resolve to
  Capacity,         \* per account: a bound on its limits
  Priority,         \* the host's priority of an auth
  Twins,            \* the other accounts that share an alias with this one
  TTL,              \* AccountProtectionReservationTTLSeconds
  PickDeadline,     \* the 750 ms of handleMethod, in (rounded up) clock steps
  CleanupInterval,  \* accountProtectionReservationCleanupInterval
  Horizon,          \* bound: no pick starts after this time
  MaxReservations,  \* bound: reservations ever inserted
  StrayCallbacks,   \* whether a callback may come twice, or without a reservation
  Overrun           \* how long past the TTL the host may keep a request running

ASSUME ConstantsAssumption ==
  /\ ProcessOf \in [Pickers -> Processes]
  /\ Limits \in [Accounts -> SUBSET Nat]
  /\ Capacity \in [Accounts -> Nat]
  /\ \A a \in Accounts : Limits[a] # {} /\ \A l \in Limits[a] : l <= Capacity[a]
  /\ Priority \in [Accounts -> Int]
  /\ Twins \in [Accounts -> SUBSET Accounts]
  /\ None \notin Accounts /\ None \notin Pickers /\ None \notin Int
  /\ TTL \in Nat /\ PickDeadline \in Nat /\ PickDeadline < TTL
  /\ CleanupInterval \in Nat /\ Horizon \in Nat
  /\ MaxReservations \in Nat /\ Overrun \in Nat
  /\ StrayCallbacks \in BOOLEAN

VARIABLES
  clock,      \* wall-clock seconds, the same for every process of the machine
  rows,       \* the committed account_protection_reservations
  nextId,     \* the next row id (AUTOINCREMENT: never reused, kept by a rollback)
  writer,     \* the pick that owns SQLite's writer lock
  pickMu,     \* per process: the pick that holds globalAccountProtection.pickMu
  pc,         \* per pick: where it is
  now,        \* per pick: time.Now() as read when it started
  draft,      \* the writer's uncommitted table
  chosen,     \* the writer's decision: an account, or None when it rejects
  refused,    \* the candidates it found at their limit
  cleanupAt,  \* per process: reservationCleanupAt, None before the first cleanup
  requests    \* the requests the host is running

picking == << pc, now >>
deciding == << draft, chosen, refused >>
vars == << clock, rows, nextId, writer, pickMu, pc, now, draft, chosen, refused,
           cleanupAt, requests >>

Time == 0 .. Horizon + TTL
Reservation == [id : 1 .. MaxReservations, account : Accounts,
                created : Time, expires : Time]
Request == [id : 1 .. MaxReservations, account : Accounts,
            process : Processes, deadline : Time]

-----------------------------------------------------------------------------
(* Counting and choosing                                                   *)

\* The rows of account a that a reader at time t still counts.
LiveOf(table, a, t) == {r \in table : r.account = a /\ r.expires > t}

(***************************************************************************)
(* The accounts whose rows the alias set of candidate a matches when the   *)
(* request offers the candidates C: an alias two of the candidates share   *)
(* is dropped (the strict file name identifies them), an alias shared with *)
(* an account outside the request is kept.                                 *)
(***************************************************************************)
Counted(a, C) == {a} \cup (Twins[a] \ C)

\* Mutant: a pick counts only the reservations made before its own clock reading.
InFlightAsOfStart(table, a, C, t) ==
  Cardinality({r \in table : r.account \in Counted(a, C) /\ r.expires > t /\ r.created <= t})

\* Mutant: the count does not filter out the expired rows no cleanup has removed.
InFlightWithExpired(table, a, C, t) ==
  Cardinality({r \in table : r.account \in Counted(a, C)})

InFlight(table, a, C, t) ==
  Cardinality({r \in table : r.account \in Counted(a, C) /\ r.expires > t})

TopPriority(S) == {a \in S : \A b \in S : Priority[b] <= Priority[a]}

(***************************************************************************)
(* chooseProtectedCandidate: the session's bound candidate when it has     *)
(* room and no available candidate has a higher priority; otherwise one of *)
(* the best candidates below their token threshold; otherwise one of the   *)
(* best that are merely below their limit.  Which of several it is depends *)
(* on the rotation cursor and the affinity binding.                        *)
(***************************************************************************)
Choices(open, demoted) ==
  LET eligible == IF open \ demoted = {} THEN open ELSE open \ demoted
      bound == TopPriority(open)
  IN TopPriority(eligible) \cup bound

\* Mutant: ORDER BY created_at DESC.
Newer(r, s) == r.created > s.created \/ (r.created = s.created /\ r.id >= s.id)

Older(r, s) == r.created < s.created \/ (r.created = s.created /\ r.id <= s.id)

-----------------------------------------------------------------------------
Init ==
  /\ clock = 0
  /\ rows = {}
  /\ nextId = 1
  /\ writer = None
  /\ pickMu = [m \in Processes |-> None]
  /\ pc = [p \in Pickers |-> "idle"]
  /\ now = [p \in Pickers |-> 0]
  /\ draft = {} /\ chosen = None /\ refused = {}
  /\ cleanupAt = [m \in Processes |-> None]
  /\ requests = {}

InTime(p) == clock <= now[p] + PickDeadline

\* pickProtectedAuth up to the usage index: the time every later statement of
\* this pick uses is read here, before any lock.
StartPick(p) ==
  /\ pc[p] = "idle"
  /\ clock <= Horizon
  /\ pc' = [pc EXCEPT ![p] = "waiting"]
  /\ now' = [now EXCEPT ![p] = clock]
  /\ UNCHANGED << clock, rows, nextId, writer, pickMu, deciding, cleanupAt, requests >>

TakePickMu(p) ==
  /\ pc[p] = "waiting" /\ InTime(p)
  /\ pickMu[ProcessOf[p]] = None
  /\ pickMu' = [pickMu EXCEPT ![ProcessOf[p]] = p]
  /\ pc' = [pc EXCEPT ![p] = "locked"]
  /\ UNCHANGED << clock, rows, nextId, writer, now, deciding, cleanupAt, requests >>

\* BEGIN IMMEDIATE on the reservation handle.
BeginImmediate(p) ==
  /\ pc[p] = "locked" /\ InTime(p)
  /\ writer = None
  /\ writer' = p
  /\ pc' = [pc EXCEPT ![p] = "writing"]
  /\ UNCHANGED << clock, rows, nextId, pickMu, now, deciding, cleanupAt, requests >>

\* cleanupExpired; it keeps its value while p holds pickMu.
CleanupDue(p) ==
  LET last == cleanupAt[ProcessOf[p]]
  IN last = None \/ now[p] - last >= CleanupInterval

\* Mutant: the cleanup deletes reservations a second before they expire.
UnexpiredEarly(table, t) == {r \in table : r.expires > t + 1}

Unexpired(table, t) == {r \in table : r.expires > t}

\* The table as the transaction of p sees it after its conditional cleanup.
Cleaned(p) == IF CleanupDue(p) THEN Unexpired(rows, now[p]) ELSE rows

\* Mutant: the expiry is computed from the time of the insert.
NewRowFromInsert(p, a) ==
  [id |-> nextId, account |-> a, created |-> now[p], expires |-> clock + TTL]

\* Mutant: a reservation without a usable expiry.
NewRowWithoutTTL(p, a) ==
  [id |-> nextId, account |-> a, created |-> now[p], expires |-> Horizon + TTL + 1]

NewRow(p, a) ==
  [id |-> nextId, account |-> a, created |-> now[p], expires |-> now[p] + TTL]

HasRoom(table, a, C, t, lim) == InFlight(table, a, C, t) < lim

(***************************************************************************)
(* The transaction of a pick offered the candidates C: cleanup when due,   *)
(* count, choose, insert.  lim is the limit of the plan each candidate     *)
(* resolves to (the configured plans are a cache, so it varies), demoted   *)
(* the candidates whose window tokens reached their threshold.             *)
(***************************************************************************)
Decide(p, C, lim, demoted) ==
  LET table == Cleaned(p)
      open == {a \in C : HasRoom(table, a, C, now[p], lim[a])}
  IN /\ pc[p] = "writing" /\ InTime(p)
     /\ pc' = [pc EXCEPT ![p] = "decided"]
     /\ refused' = C \ open
     /\ \/ /\ open = {}
           /\ chosen' = None
           /\ draft' = table
        \/ \E a \in Choices(open, demoted) :
             /\ nextId <= MaxReservations
             /\ chosen' = a
             /\ draft' = table \cup {NewRow(p, a)}
     /\ UNCHANGED << clock, rows, nextId, writer, pickMu, now, cleanupAt, requests >>

\* Mutant: the deferred unlock only runs once the transaction was opened.
EndPickLeakingMutex(p) ==
  /\ pc' = [pc EXCEPT ![p] = "idle"]
  /\ now' = [now EXCEPT ![p] = 0]
  /\ pickMu' = [pickMu EXCEPT ![ProcessOf[p]] = IF @ = p /\ writer = p THEN None ELSE @]
  /\ writer' = IF writer = p THEN None ELSE writer
  /\ IF writer = p
       THEN draft' = {} /\ chosen' = None /\ refused' = {}
       ELSE UNCHANGED deciding

\* What every way out of a pick does: the deferred Rollback and unlock.
EndPick(p) ==
  /\ pc' = [pc EXCEPT ![p] = "idle"]
  /\ now' = [now EXCEPT ![p] = 0]
  /\ pickMu' = [pickMu EXCEPT ![ProcessOf[p]] = IF @ = p THEN None ELSE @]
  /\ writer' = IF writer = p THEN None ELSE writer
  /\ IF writer = p
       THEN draft' = {} /\ chosen' = None /\ refused' = {}
       ELSE UNCHANGED deciding

CommitRows(p) ==
  /\ pc[p] = "decided" /\ InTime(p)
  /\ rows' = draft
  /\ cleanupAt' = IF CleanupDue(p) THEN [cleanupAt EXCEPT ![ProcessOf[p]] = now[p]] ELSE cleanupAt
  /\ EndPick(p)
  /\ UNCHANGED clock

\* COMMIT of a granted pick.  The host dispatches the request, or has given up
\* on the pick and never will (nothing tells the plugin).
CommitGrant(p, dispatched) ==
  /\ chosen # None
  /\ CommitRows(p)
  /\ nextId' = nextId + 1
  /\ requests' = IF dispatched
                   THEN requests \cup {[id |-> nextId, account |-> chosen,
                                        process |-> ProcessOf[p],
                                        deadline |-> now[p] + TTL]}
                   ELSE requests

\* COMMIT of a rejected pick: it makes the cleanup durable, and only then is
\* account_protection_saturated returned.
CommitReject(p) ==
  /\ chosen = None
  /\ CommitRows(p)
  /\ UNCHANGED << nextId, requests >>

\* Mutant: reservationCleanupAt is advanced before the commit it depends on.
AbandonMarkingCleanup(p) ==
  /\ pc[p] # "idle"
  /\ cleanupAt' = IF pc[p] = "decided" THEN [cleanupAt EXCEPT ![ProcessOf[p]] = now[p]] ELSE cleanupAt
  /\ EndPick(p)
  /\ UNCHANGED << clock, rows, nextId, requests >>

Abandon(p) ==
  /\ pc[p] # "idle"
  /\ EndPick(p)
  /\ UNCHANGED << clock, rows, nextId, cleanupAt, requests >>

\* SQLITE_BUSY after the 200 ms busy timeout, or any other database error.
PickFails(p) == InTime(p) /\ Abandon(p)

\* Mutant: pickMu is an ordinary mutex, whose Lock ignores the context.
PickTimesOutOnceLocked(p) == ~InTime(p) /\ pc[p] # "waiting" /\ Abandon(p)

\* The 750 ms context of the pick expires: pickMu, BeginTx, every statement and
\* Commit give up.
PickTimesOut(p) == ~InTime(p) /\ Abandon(p)

-----------------------------------------------------------------------------
(* Usage callbacks                                                         *)

(***************************************************************************)
(* The accounts whose rows the identity of a callback for account a can    *)
(* match: its own by file name or auth index, its twins' too by a shared   *)
(* auth id or source, none when the stored columns are empty or differ.    *)
(***************************************************************************)
CallbackMatches(a) == {{a}, {a} \cup Twins[a], {}}

ReleasedRow(matching) == {r \in matching : \A s \in matching : Older(r, s)}

\* The transaction of recordUsage: the usage row and the release of the oldest
\* matching reservation, if there is one.
Release(matches) ==
  LET matching == {r \in rows : r.account \in matches /\ r.expires > clock}
  IN /\ writer = None
     /\ rows' = rows \ ReleasedRow(matching)
     /\ UNCHANGED << clock, nextId, writer, pickMu, picking, deciding, cleanupAt >>

\* A request ends and its callback is recorded.
UsageCallback(q, matches) ==
  /\ Release(matches)
  /\ requests' = requests \ {q}

\* A callback is delivered again, or is that of a request no reservation was
\* taken for: nothing in it tells.
StrayCallback(matches) ==
  /\ StrayCallbacks
  /\ Release(matches)
  /\ UNCHANGED requests

\* The request ends and its callback never comes, or its transaction fails.
CallbackLost(q) ==
  /\ requests' = requests \ {q}
  /\ UNCHANGED << clock, rows, nextId, writer, pickMu, picking, deciding, cleanupAt >>

\* The dashboard summary deletes expired rows in a statement of its own; the
\* time it uses was read before it waited for the writer lock.
SummaryCleanup(t) ==
  /\ writer = None
  /\ t <= clock
  /\ rows' = Unexpired(rows, t)
  /\ UNCHANGED << clock, nextId, writer, pickMu, picking, deciding, cleanupAt, requests >>

-----------------------------------------------------------------------------
(* The environment                                                         *)

\* A second passes.  The host ends a request before the TTL plus Overrun.
Tick ==
  /\ clock < Horizon + TTL
  /\ \A q \in requests : clock + 1 < q.deadline + Overrun
  /\ clock' = clock + 1
  /\ UNCHANGED << rows, nextId, writer, pickMu, picking, deciding, cleanupAt, requests >>

\* The host process dies with the plugin in it: its picks, its locks, its open
\* transaction and its requests are gone, the committed rows are not.
Crash(m) ==
  /\ LET mine == {p \in Pickers : ProcessOf[p] = m}
     IN /\ \E p \in mine : pc[p] # "idle"
        /\ pc' = [p \in Pickers |-> IF p \in mine THEN "idle" ELSE pc[p]]
        /\ now' = [p \in Pickers |-> IF p \in mine THEN 0 ELSE now[p]]
        /\ writer' = IF writer \in mine THEN None ELSE writer
        /\ IF writer \in mine
             THEN draft' = {} /\ chosen' = None /\ refused' = {}
             ELSE UNCHANGED deciding
  /\ pickMu' = [pickMu EXCEPT ![m] = None]
  /\ cleanupAt' = [cleanupAt EXCEPT ![m] = None]
  /\ requests' = {q \in requests : q.process # m}
  /\ UNCHANGED << clock, rows, nextId >>

\* The limits the candidates of one pick resolve to.
LimitChoices ==
  {f \in [Accounts -> UNION {Limits[a] : a \in Accounts}] :
     \A a \in Accounts : f[a] \in Limits[a]}

Pick(p) ==
  \/ StartPick(p)
  \/ TakePickMu(p)
  \/ BeginImmediate(p)
  \/ \E C \in (SUBSET Accounts) \ {{}}, lim \in LimitChoices, demoted \in SUBSET Accounts :
       Decide(p, C, lim, demoted)
  \/ \E dispatched \in BOOLEAN : CommitGrant(p, dispatched)
  \/ CommitReject(p)
  \/ PickFails(p)
  \/ PickTimesOut(p)

RequestEnds ==
  \E q \in requests :
    \/ \E matches \in CallbackMatches(q.account) : UsageCallback(q, matches)
    \/ CallbackLost(q)

Next ==
  \/ \E p \in Pickers : Pick(p)
  \/ RequestEnds
  \/ \E a \in Accounts : \E matches \in CallbackMatches(a) : StrayCallback(matches)
  \/ \E t \in Time : SummaryCleanup(t)
  \/ Tick
  \/ \E m \in Processes : Crash(m)

Spec == Init /\ [][Next]_vars

(***************************************************************************)
(* Fairness.  Time passes; a request ends (the host imposes a timeout on   *)
(* it); a pick whose context has expired returns, since every call it can  *)
(* be blocked in takes that context.  Nothing is assumed of how soon a     *)
(* lock is obtained or whether a transaction succeeds.                     *)
(***************************************************************************)
Fairness ==
  /\ WF_vars(Tick)
  /\ WF_vars(RequestEnds)
  /\ \A p \in Pickers : WF_vars(PickTimesOut(p))

FairSpec == Spec /\ Fairness

-----------------------------------------------------------------------------
(* Properties                                                              *)

\* The variables have the shape of the schema and of pickProtectedAuth's locals.
TypeOK ==
  /\ clock \in Time
  /\ rows \subseteq Reservation
  /\ nextId \in 1 .. MaxReservations + 1
  /\ writer \in Pickers \cup {None}
  /\ pickMu \in [Processes -> Pickers \cup {None}]
  /\ pc \in [Pickers -> {"idle", "waiting", "locked", "writing", "decided"}]
  /\ now \in [Pickers -> 0 .. Horizon]
  /\ draft \subseteq Reservation
  /\ chosen \in Accounts \cup {None}
  /\ refused \subseteq Accounts
  /\ cleanupAt \in [Processes -> 0 .. Horizon \cup {None}]
  /\ requests \subseteq Request

\* The hard limit: whatever processes, stale clocks, timeouts and crashes do,
\* an account never has more unexpired reservations than its plan allows.
HardLimit ==
  \A a \in Accounts : Cardinality(LiveOf(rows, a, clock)) <= Capacity[a]

\* Every error path of a pick gives its locks back: pickMu and the writer lock
\* are held exactly by picks that are inside the sections they guard.  A leak
\* would turn every later pick of the process into a timeout.
LocksHeldByPick ==
  \A p \in Pickers :
    /\ pickMu[ProcessOf[p]] = p <=> pc[p] \in {"locked", "writing", "decided"}
    /\ writer = p <=> pc[p] \in {"writing", "decided"}

\* reservationCleanupAt suppresses the cleanup for CleanupInterval, so it may
\* only record a cleanup that was committed: no row that had expired by then is
\* left, and none is inserted later by a pick of another process whose time is
\* older.
CleanupDurable ==
  \A m \in Processes : cleanupAt[m] # None =>
    \A r \in rows : r.expires > cleanupAt[m]

\* What a rejection that can still be committed rests on: every refused account
\* and its twins had a plan limit's worth of reservations unexpired at most
\* PickDeadline ago.  Expired rows that no cleanup has removed do not block.
RejectsOnlyWhenFull ==
  \A p \in Pickers : (pc[p] = "decided" /\ chosen = None /\ InTime(p)) =>
    \A a \in refused : \E l \in Limits[a] :
      Cardinality({r \in rows : r.account \in {a} \cup Twins[a]
                                 /\ r.expires > clock - PickDeadline}) >= l

\* The requests the host really runs.  A callback releases the oldest matching
\* reservation, seldom the one of its own request; the limit still holds for
\* the requests because the newer expiry is the one that stays.
RequestsWithinLimit ==
  \A a \in Accounts : Cardinality({q \in requests : q.account = a}) <= Capacity[a]

Held(a) == Cardinality(LiveOf(rows, a, clock))

Budget == INSTANCE ConcurrencyBudget WITH
            time <- clock, held <- [a \in Accounts |-> Held(a)]

\* The protocol implements the semaphore: cleanups remove only expired rows, a
\* callback gives back at most one unit, an abandoned or crashed pick none.
ImplementsBudget == Budget!Spec

\* A reservation stops blocking its account, whether its callback arrives, is
\* lost, or releases an older reservation instead.
Blocks(i) == \E r \in rows : r.id = i /\ r.expires > clock
SlotsComeBack == \A i \in 1 .. MaxReservations : Blocks(i) ~> ~Blocks(i)

\* A pick returns to the host whatever it is blocked in.
PicksEnd == \A p \in Pickers : pc[p] # "idle" ~> pc[p] = "idle"

=============================================================================
