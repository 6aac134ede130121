--------------------------- MODULE SchedulerState ---------------------------
(***************************************************************************)
(* The restriction snapshots of the Codex scheduler: each plugin process   *)
(* caches the bans and invalid credentials of the shared database, and     *)
(* scheduler.pick filters with the cached snapshot instead of a query.     *)
(* Two protocols keep a pick from filtering with too old a snapshot:       *)
(*   - across processes, triggers count every change of the tables in      *)
(*     store_state.scheduler_revision_codex, which each pick reads and     *)
(*     compares with the revision its process observed last;               *)
(*   - within a process, a generation guards what a slow query publishes,  *)
(*     and a pending count keeps the cache unknown from before a           *)
(*     restriction is written until after it is committed.                 *)
(*                                                                         *)
(* What is in a snapshot is abstracted to the revision at which its first  *)
(* query ran (asOf): it holds every change up to that revision.  The       *)
(* generation is compared for equality only, so it is abstracted to the    *)
(* set of readers whose generation is still the current one.               *)
(***************************************************************************)
EXTENDS Integers, FiniteSets

CONSTANTS
  Processes,    \* plugin processes on one SQLite file
  Pickers,      \* goroutines that run scheduler.pick
  Workers,      \* the refresh worker of a process
  Maintainers,  \* summary maintenance, which refreshes the same cache
  Writers,      \* goroutines that record or lift restrictions
  ProcessOf,    \* the process each of them runs in
  Restartable,  \* the processes that may be restarted or reconfigured
  Unknown,      \* no usable snapshot (codexInitialized = false)
  Closed,       \* the store of the process is not open
  MaxRevision   \* bound: committed changes of the restriction tables

Refreshers == Workers \cup Maintainers
Readers == Pickers \cup Refreshers
Actors == Readers \cup Writers

ASSUME ConstantsAssumption ==
  /\ ProcessOf \in [Actors -> Processes]
  /\ \A a, b \in Workers : ProcessOf[a] = ProcessOf[b] => a = b
  /\ Pickers \cap Refreshers = {} /\ Workers \cap Maintainers = {}
  /\ Writers \cap Readers = {} /\ IsFiniteSet(Writers)
  /\ Restartable \subseteq Processes
  /\ Unknown \notin [asOf : Nat, age : {"fresh", "stale", "expired"}]
  /\ Closed \notin Nat /\ MaxRevision \in Nat

VARIABLES
  revision,   \* the committed scheduler_revision_codex
  observed,   \* per process: providerRevisions.observed.Codex, Closed before open
  cache,      \* per process: codexSnapshot
  pending,    \* per process: codexPending
  wake,       \* the processes whose wake channel holds a request
  current,    \* the readers that hold the current generation of their process
  pc,         \* per goroutine: where it is
  read,       \* per reader: the revision its snapshot reflects
  revRead,    \* per picker: the revision it read
  attempt,    \* per picker: 1, or 2 for the retry of retrySchedulerStateChange
  need        \* history: the revision the view of this pick has to reflect

database == << revision >>
process == << observed, cache, pending, wake >>
pick == << revRead, attempt, need >>
vars == << revision, observed, cache, pending, wake, current, pc, read, revRead,
           attempt, need >>

Of(m, S) == {x \in S : ProcessOf[x] = m}
Snapshot(v) == [asOf |-> v, age |-> "fresh"]
Known(m) == cache[m] # Unknown
\* codex: a snapshot within its TTL and before its earliest reset.
Fresh(m) == Known(m) /\ cache[m].age = "fresh"
\* codexForPick: also one within its grace period.
Usable(m) == Known(m) /\ cache[m].age # "expired"

Start(x) == IF x \in Workers THEN "begin" ELSE "idle"
Resting(x) == IF x \in Workers THEN "waiting" ELSE "idle"

Init ==
  /\ revision = 0
  /\ observed = [m \in Processes |-> Closed]
  /\ cache = [m \in Processes |-> Unknown]
  /\ pending = [m \in Processes |-> 0]
  /\ wake = {}
  /\ current = {}
  /\ pc = [x \in Actors |-> Start(x)]
  /\ read = [x \in Readers |-> 0]
  /\ revRead = [p \in Pickers |-> 0]
  /\ attempt = [p \in Pickers |-> 1]
  /\ need = [p \in Pickers |-> 0]

Goto(x, label) == pc' = [pc EXCEPT ![x] = label]

\* Mutant: the wake channel is not buffered, so a busy worker misses the request.
RequestUnbuffered(m) ==
  wake' = IF \E r \in Of(m, Workers) : pc[r] = "waiting" THEN wake \cup {m} ELSE wake

\* requestRefresh: a send on the wake channel of capacity one.
Request(m) == wake' = wake \cup {m}

\* Every change of the cache advances the generation.
Bump(m) == current' = current \ Of(m, Readers)

\* What every restriction event does to the cache of process m.
Forget(m) ==
  /\ cache' = [cache EXCEPT ![m] = Unknown]
  /\ Bump(m)

-----------------------------------------------------------------------------
(* The store                                                               *)

\* store.open: providerRevisions.reset takes the revision of the file as
\* observed without touching the cache.
OpenStore(m) ==
  /\ observed[m] = Closed
  /\ observed' = [observed EXCEPT ![m] = revision]
  /\ UNCHANGED << revision, cache, pending, wake, current, pc, read, pick >>

Open(x) == observed[ProcessOf[x]] # Closed

-----------------------------------------------------------------------------
(* Writers                                                                 *)

\* beginRestrictionWrite, before a ban or an invalid credential is written.
BeginWrite(w) ==
  LET m == ProcessOf[w] IN
  /\ pc[w] = "idle" /\ Open(w)
  /\ Goto(w, "writing")
  /\ pending' = [pending EXCEPT ![m] = @ + 1]
  /\ Forget(m)
  /\ UNCHANGED << revision, observed, wake, read, pick >>

\* The upsert commits, and its trigger counts the revision; a backfill commits
\* several.  From here on the picks of this process have to see it.
CommitWrite(w) ==
  LET m == ProcessOf[w] IN
  /\ pc[w] = "writing" /\ revision < MaxRevision
  /\ revision' = revision + 1
  /\ need' = [p \in Pickers |->
                IF ProcessOf[p] = m /\ pc[p] \notin {"idle", "filter", "unavailable"}
                  THEN revision + 1 ELSE need[p]]
  /\ UNCHANGED << process, current, pc, read, revRead, attempt >>

\* Mutant: codexPending is a flag, which the first finish clears.
FinishWriteClearing(w) ==
  LET m == ProcessOf[w] IN
  /\ pc[w] = "writing"
  /\ Goto(w, "idle")
  /\ pending' = [pending EXCEPT ![m] = 0]
  /\ Forget(m)
  /\ Request(m)
  /\ UNCHANGED << revision, observed, read, pick >>

\* The deferred finishRestrictionWrite, after a commit or a failed write.
FinishWrite(w) ==
  LET m == ProcessOf[w] IN
  /\ pc[w] = "writing"
  /\ Goto(w, "idle")
  /\ pending' = [pending EXCEPT ![m] = IF @ > 0 THEN @ - 1 ELSE @]
  /\ Forget(m)
  /\ Request(m)
  /\ UNCHANGED << revision, observed, read, pick >>

\* A recovery, release or expiry lifts restrictions; the cache is told later.
CommitLift(w) ==
  /\ pc[w] = "idle" /\ Open(w) /\ revision < MaxRevision
  /\ revision' = revision + 1
  /\ Goto(w, "lifted")
  /\ UNCHANGED << process, current, read, pick >>

AnnounceLift(w) ==
  /\ pc[w] = "lifted"
  /\ Goto(w, "idle")
  /\ Forget(ProcessOf[w])
  /\ Request(ProcessOf[w])
  /\ UNCHANGED << revision, observed, pending, read, pick >>

\* A later statement of the same recovery fails: it returns without announcing
\* what its earlier statements committed.
LiftUnannounced(w) ==
  /\ pc[w] = "lifted"
  /\ Goto(w, "idle")
  /\ UNCHANGED << revision, process, current, read, pick >>

-----------------------------------------------------------------------------
(* Queries shared by picks and refreshes                                   *)

\* queryActiveAutobans, then queryActiveInvalidAuths: two statements, between
\* which the tables may change.
ReadBans(x) ==
  /\ pc[x] = "bans"
  /\ read' = [read EXCEPT ![x] = revision]
  /\ Goto(x, "invalids")
  /\ UNCHANGED << revision, process, current, pick >>

ReadInvalids(x) ==
  /\ pc[x] = "invalids"
  /\ Goto(x, "publish")
  /\ UNCHANGED << revision, process, current, read, pick >>

\* Mutant: a publication is guarded by the pending count alone.
PublishableIfNotPending(x) == pending[ProcessOf[x]] = 0

Publishable(x) == x \in current /\ pending[ProcessOf[x]] = 0

\* Mutant: a publication leaves the generation alone.
PublishKeepingGeneration(x) ==
  /\ cache' = [cache EXCEPT ![ProcessOf[x]] = Snapshot(read[x])]
  /\ UNCHANGED current

\* The guarded assignment of a snapshot; publishing advances the generation.
Publish(x) ==
  /\ cache' = [cache EXCEPT ![ProcessOf[x]] = Snapshot(read[x])]
  /\ Bump(ProcessOf[x])

-----------------------------------------------------------------------------
(* Refreshes: the worker, and summary maintenance                          *)

\* beginRefresh
BeginRefresh(r) ==
  /\ pc[r] = Start(r) /\ Open(r)
  /\ current' = (current \ Of(ProcessOf[r], Readers)) \cup {r}
  /\ Goto(r, "bans")
  /\ UNCHANGED << revision, process, read, pick >>

\* applySnapshotRefresh; a refused refresh is no error.
ApplyRefresh(r) ==
  /\ pc[r] = "publish"
  /\ Goto(r, Resting(r))
  /\ read' = [read EXCEPT ![r] = 0]
  /\ IF Publishable(r) THEN Publish(r) ELSE cache' = cache /\ current' = current \ {r}
  /\ UNCHANGED << revision, observed, pending, wake, pick >>

\* Mutant: after an error the worker waits for the next request.
RefreshGivesUp(r) ==
  /\ pc[r] \in {"bans", "invalids"}
  /\ Goto(r, Resting(r))
  /\ read' = [read EXCEPT ![r] = 0]
  /\ current' = current \ {r}
  /\ UNCHANGED << revision, process, pick >>

\* A query or the open fails: the worker tries again after its retry delay.
RefreshFails(r) ==
  /\ pc[r] \in {"bans", "invalids"}
  /\ Goto(r, Start(r))
  /\ read' = [read EXCEPT ![r] = 0]
  /\ current' = current \ {r}
  /\ UNCHANGED << revision, process, pick >>

\* loop: the worker takes the request out of the wake channel.
WorkerWakes(r) ==
  /\ pc[r] = "waiting" /\ ProcessOf[r] \in wake
  /\ wake' = wake \ {ProcessOf[r]}
  /\ Goto(r, "begin")
  /\ UNCHANGED << revision, observed, cache, pending, current, read, pick >>

-----------------------------------------------------------------------------
(* Picks                                                                   *)

\* The locals of the goroutines S are gone.
Return(S) ==
  /\ read' = [x \in Readers |-> IF x \in S THEN 0 ELSE read[x]]
  /\ revRead' = [p \in Pickers |-> IF p \in S THEN 0 ELSE revRead[p]]
  /\ attempt' = [p \in Pickers |-> IF p \in S THEN 1 ELSE attempt[p]]
  /\ need' = [p \in Pickers |-> IF p \in S THEN 0 ELSE need[p]]

\* queryPersistentSchedulerRevisions, when the store is already open.  Nothing
\* the pick filters with may be older than this moment.
ReadRevision(p) ==
  /\ pc[p] = "idle" \/ pc[p] = "again"
  /\ attempt' = [attempt EXCEPT ![p] = IF pc[p] = "again" THEN @ + 1 ELSE 1]
  /\ need' = [need EXCEPT ![p] = revision]
  /\ IF Open(p)
       THEN Goto(p, "reconcile") /\ revRead' = [revRead EXCEPT ![p] = revision]
       ELSE Goto(p, "snapshot") /\ UNCHANGED revRead
  /\ UNCHANGED << revision, process, current, read >>

\* Mutant: the revision is marked as observed, and the snapshot kept.
ReconcileKeepingSnapshot(p) ==
  LET m == ProcessOf[p] IN
  /\ pc[p] = "reconcile"
  /\ Goto(p, "snapshot")
  /\ observed' = [observed EXCEPT ![m] = revRead[p]]
  /\ revRead' = [revRead EXCEPT ![p] = 0]
  /\ UNCHANGED << revision, cache, pending, wake, current, read, attempt, need >>

\* reconcileProviders: invalidating and recording the revision are one step for
\* every other pick (both happen under persistentSchedulerRevisionState.mu).
Reconcile(p) ==
  LET m == ProcessOf[p] IN
  /\ pc[p] = "reconcile"
  /\ Goto(p, "snapshot")
  /\ observed' = [observed EXCEPT ![m] = revRead[p]]
  /\ revRead' = [revRead EXCEPT ![p] = 0]
  /\ IF revRead[p] # observed[m]
       THEN Forget(m) /\ Request(m)
       ELSE UNCHANGED << cache, current, wake >>
  /\ UNCHANGED << revision, pending, read, attempt, need >>

\* codexForPick: a snapshot in its grace period is served, and refreshed behind
\* the pick's back.
TakeSnapshot(p) ==
  LET m == ProcessOf[p] IN
  /\ pc[p] = "snapshot"
  /\ Usable(m)
  /\ read' = [read EXCEPT ![p] = cache[m].asOf]
  /\ wake' = IF cache[m].age = "stale" THEN wake \cup {m} ELSE wake
  /\ Goto(p, "filter")
  /\ UNCHANGED << revision, observed, cache, pending, current, pick >>

NoSnapshot(p) ==
  LET m == ProcessOf[p] IN
  /\ pc[p] = "snapshot"
  /\ ~Usable(m)
  /\ Request(m)
  /\ Goto(p, "generation")
  /\ UNCHANGED << revision, observed, cache, pending, current, read, pick >>

\* The store is open; providerGeneration.
ReadGeneration(p) ==
  /\ pc[p] = "generation" /\ Open(p)
  /\ current' = current \cup {p}
  /\ Goto(p, "bans")
  /\ UNCHANGED << revision, process, read, pick >>

\* publishCodexOrCurrent: its own snapshot, or the fresh one another reader has
\* published; otherwise errSchedulerStateChanged, which is retried once.
PublishOwn(p) ==
  /\ pc[p] = "publish" /\ Publishable(p)
  /\ Publish(p)
  /\ Goto(p, "filter")
  /\ UNCHANGED << revision, observed, pending, wake, read, pick >>

\* Mutant: a pick that may not publish its snapshot filters with it all the same.
UseUnpublished(p) ==
  /\ pc[p] = "publish" /\ ~Publishable(p)
  /\ current' = current \ {p}
  /\ Goto(p, "filter")
  /\ UNCHANGED << revision, process, read, pick >>

UseCurrent(p) ==
  LET m == ProcessOf[p] IN
  /\ pc[p] = "publish" /\ ~Publishable(p)
  /\ Fresh(m)
  /\ read' = [read EXCEPT ![p] = cache[m].asOf]
  /\ current' = current \ {p}
  /\ Goto(p, "filter")
  /\ UNCHANGED << revision, process, pick >>

StateChanged(p) ==
  LET m == ProcessOf[p] IN
  /\ pc[p] = "publish" /\ ~Publishable(p)
  /\ ~Fresh(m)
  /\ current' = current \ {p}
  /\ Goto(p, IF attempt[p] = 1 THEN "again" ELSE "unavailable")
  /\ UNCHANGED << revision, process, read, pick >>

\* The candidates are filtered, or the call failed: it returns to the host.
EndPick(p) ==
  /\ pc[p] # "idle"
  /\ Goto(p, "idle")
  /\ current' = current \ {p}
  /\ Return({p})
  /\ UNCHANGED << revision, process >>

-----------------------------------------------------------------------------
(* Time, reconfiguration, restart                                          *)

\* The TTL or the earliest reset of a snapshot passes; then its grace period.
Age(m) ==
  /\ Usable(m)
  /\ cache' = [cache EXCEPT ![m].age = IF @ = "fresh" THEN "stale" ELSE "expired"]
  /\ UNCHANGED << revision, observed, pending, wake, current, pc, read, pick >>

\* plugin.reconfigure, which waits for the picks of the process: the worker is
\* replaced, and its wake channel with it.
Reconfigure(m) ==
  /\ m \in Restartable
  /\ \A p \in Of(m, Pickers) : pc[p] = "idle"
  /\ Forget(m)
  /\ wake' = wake \ {m}
  /\ pc' = [x \in Actors |-> IF x \in Of(m, Workers) THEN "begin" ELSE pc[x]]
  /\ read' = [x \in Readers |-> IF x \in Of(m, Workers) THEN 0 ELSE read[x]]
  /\ UNCHANGED << revision, observed, pending, pick >>

\* The process dies, or shuts down and is registered again.
Restart(m) ==
  /\ m \in Restartable
  /\ observed' = [observed EXCEPT ![m] = Closed]
  /\ cache' = [cache EXCEPT ![m] = Unknown]
  /\ pending' = [pending EXCEPT ![m] = 0]
  /\ wake' = wake \ {m}
  /\ Bump(m)
  /\ pc' = [x \in Actors |-> IF ProcessOf[x] = m THEN Start(x) ELSE pc[x]]
  /\ Return(Of(m, Readers))
  /\ UNCHANGED revision

Write(w) ==
  \/ BeginWrite(w) \/ CommitWrite(w) \/ FinishWrite(w)
  \/ CommitLift(w) \/ AnnounceLift(w) \/ LiftUnannounced(w)

Refresh(r) ==
  \/ BeginRefresh(r) \/ ReadBans(r) \/ ReadInvalids(r)
  \/ ApplyRefresh(r) \/ RefreshFails(r)

Pick(p) ==
  \/ ReadRevision(p) \/ Reconcile(p) \/ TakeSnapshot(p) \/ NoSnapshot(p)
  \/ ReadGeneration(p) \/ ReadBans(p) \/ ReadInvalids(p)
  \/ PublishOwn(p) \/ UseCurrent(p) \/ StateChanged(p) \/ EndPick(p)

Next ==
  \/ \E w \in Writers : Write(w)
  \/ \E r \in Refreshers : Refresh(r)
  \/ \E r \in Workers : WorkerWakes(r)
  \/ \E p \in Pickers : Pick(p)
  \/ \E m \in Processes : OpenStore(m) \/ Age(m) \/ Reconfigure(m) \/ Restart(m)

Spec == Init /\ [][Next]_vars

(***************************************************************************)
(* Fairness.  The worker runs, the store gets opened for it, its queries   *)
(* do not fail for ever (it retries without end), and a restriction write  *)
(* returns.  Picks need not come, and no snapshot need age.                *)
(***************************************************************************)
Fairness ==
  /\ \A m \in Processes : WF_vars(OpenStore(m))
  /\ \A r \in Workers :
       /\ WF_vars(BeginRefresh(r) \/ ApplyRefresh(r) \/ WorkerWakes(r))
       /\ SF_vars(ReadBans(r))
       /\ SF_vars(ReadInvalids(r))
  /\ \A w \in Writers : WF_vars(FinishWrite(w))

FairSpec == Spec /\ Fairness

-----------------------------------------------------------------------------
(* Properties                                                              *)

\* The variables have the shape of schedulerStateCache and of the goroutines'
\* locals; a served snapshot is never nil.
TypeOK ==
  /\ revision \in 0 .. MaxRevision
  /\ observed \in [Processes -> 0 .. MaxRevision \cup {Closed}]
  /\ cache \in [Processes -> {Unknown} \cup
                  [asOf : 0 .. MaxRevision, age : {"fresh", "stale", "expired"}]]
  /\ pending \in [Processes -> 0 .. Cardinality(Writers)]
  /\ wake \subseteq Processes
  /\ current \subseteq Readers
  /\ pc \in [Actors -> {"idle", "begin", "waiting", "writing", "lifted", "reconcile",
                        "snapshot", "generation", "bans", "invalids", "publish",
                        "filter", "again", "unavailable"}]
  /\ read \in [Readers -> 0 .. MaxRevision]
  /\ revRead \in [Pickers -> 0 .. MaxRevision]
  /\ attempt \in [Pickers -> 1 .. 2]
  /\ need \in [Pickers -> 0 .. MaxRevision]

\* A pick filters with a snapshot that holds every change any process committed
\* before the pick read the revision, and every restriction its own process
\* committed before the pick obtained the snapshot: no banned account slips
\* through, and none is refused for a restriction lifted before.
FiltersWithCurrentState ==
  \A p \in Pickers : pc[p] = "filter" => read[p] >= need[p]

\* A revision marked as observed is reflected by the snapshot: otherwise no later
\* pick would notice the change that the snapshot lacks.
ObservedIsReflected ==
  \A m \in Processes : Known(m) /\ observed[m] # Closed => cache[m].asOf >= observed[m]

\* While a restriction is being written, its process has no snapshot to serve;
\* the count is exact, so that no finish opens the window of another write.
PendingFailsClosed ==
  \A m \in Processes :
    /\ pending[m] = Cardinality({w \in Of(m, Writers) : pc[w] = "writing"})
    /\ pending[m] > 0 => ~Known(m)

\* A slow query never replaces a snapshot by an older one, whichever of picks,
\* worker and maintenance published it.
SnapshotsMoveForward ==
  [][\A m \in Processes : Known(m) /\ cache'[m] # Unknown =>
       cache'[m].asOf >= cache[m].asOf]_vars

\* What a pick under way has to see, and the snapshot it filters with.
Floor(p) == IF pc[p] = "idle" THEN -1 ELSE need[p]
Seen(p) == IF pc[p] = "filter" THEN read[p] ELSE -1

View == INSTANCE CurrentView WITH
          Clients <- Pickers, version <- revision,
          floor <- [p \in Pickers |-> Floor(p)], seen <- [p \in Pickers |-> Seen(p)]

\* The cache, the generation, the pending count and the retry together serve every
\* pick one current view: a change between the statements of a query, a refresh
\* or a restart never gives a pick a second view or one it was not owed.
ImplementsCurrentView == View!Spec

\* The worker repopulates an unknown cache without the help of a pick: the wake
\* request that arrives during a refresh is kept for a refresh of its own.
UnknownIsTemporary ==
  \A m \in {ProcessOf[r] : r \in Workers} :
    <>[](\A w \in Of(m, Writers) : pc[w] = "idle") => (~Known(m) ~> Known(m))

\* A pick that was served a stale snapshot has it replaced behind its back, even
\* when the refresh fails at first.
StaleIsRefreshed ==
  \A m \in {ProcessOf[r] : r \in Workers} :
    Known(m) /\ ~Fresh(m) /\ m \in wake ~> ~Known(m) \/ Fresh(m)

=============================================================================
