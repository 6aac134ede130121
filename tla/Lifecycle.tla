----------------------------- MODULE Lifecycle -----------------------------
(***************************************************************************)
(* The plugin's lifecycle: the host's threads call init, register or        *)
(* reconfigure, shutdown, and the methods; a read-write gate orders them    *)
(* (src/plugin_lifecycle.go); the configuration starts the background       *)
(* managers and the shutdown stops them, in a fixed order (src/main.go).    *)
(* The refreshes of the account protection, which a stop abandons after a   *)
(* grace period, and the summary cache are modelled in full; the other      *)
(* managers by what their goroutines share: the store, the published        *)
(* scheduler snapshot, the price update.  A call that reaches the gate is   *)
(* a "reader" or a "writer" of it.  The affinity table is left out          *)
(* (Selection), and so are the panic hooks, empty in a release build.       *)
(***************************************************************************)
EXTENDS SummaryCache, FiniteSets

CONSTANTS Scenes           \* what the host does: see Scene

Managers == {"refresher", "protection", "quota", "prices", "retention",
             "health", "maintenance", "precompute"}
Optional == {"protection", "quota", "prices", "precompute"}
Writers == {"init", "configure", "shutdown"}
Readers == {"pick", "usage", "manage", "normal", "fresh", "sync"}
Caches == {"plans", "usage"}

(* A scene bounds a behaviour: the calls each thread makes, in order; the   *)
(* optional managers its configuration enables; the managers whose startup  *)
(* grace or interval ends before it does.                                   *)
Scene == [calls : [Threads -> Seq(Writers \union Readers)],
          enabled : SUBSET Optional, due : SUBSET Managers, legacy : BOOLEAN]

ASSUME ScenesAssumption == Scenes \subseteq Scene
ASSUME ThreadsAssumption == None \notin Threads

VARIABLES scene,
          thread,          \* each thread's call: calls left, place, work left, ...
          gate,            \* pluginLifecycleGate: the writer that holds w, if any
          stopped,         \* pluginLifecycleStopped
          operations,      \* pluginOperationState: context and whether cancelled
          live,            \* managers with a context that is not cancelled
          configured,      \* summaryPrecomputeManager.cfg has been set
          workers,         \* their goroutines
          protection,      \* the two caches of accountProtectionManager
          tasks,           \* their refreshes, those abandoned included
          store,           \* globalStore.db # nil
          snapshot         \* a scheduler snapshot is published

vars == <<scene, thread, gate, stopped, operations, live, configured, workers, protection,
          tasks, store, snapshot, cacheVars>>

Enabled == (Managers \ Optional) \union scene.enabled

(* What a writer does inside the gate, as a list of steps.                  *)
Stop(m) == <<<<"cancel", m>>, <<"join", m>>>>
Restart(m) == Stop(m) \o <<<<"start", m>>>>
Managed(step(_)) == step("protection") \o step("quota") \o step("prices")
                    \o step("retention") \o step("health") \o step("maintenance")
                    \o step("precompute")
Invalidation == <<<<"invalidate", "plugin">>>>

(* Mutant: shutdown invalidates the snapshot first.                         *)
ShutdownWorkInvalidatingFirst ==
  <<<<"stopped", "plugin">>>> \o Invalidation \o Stop("refresher") \o Managed(Stop)
  \o <<<<"close", "plugin">>>>

ShutdownWork ==
  <<<<"stopped", "plugin">>>> \o Stop("refresher") \o Managed(Stop)
  \o Invalidation \o <<<<"close", "plugin">>>>

ConfigureWork ==
  Stop("refresher") \o Managed(Restart)
  \o Stop("refresher") \o Invalidation \o <<<<"start", "refresher">>>>

Work == [init |-> <<<<"init", "plugin">>>>, configure |-> ConfigureWork,
         shutdown |-> ShutdownWork]

NoCall(calls) == [calls |-> calls, at |-> "idle", work |-> <<>>, context |-> 0,
                  running |-> FALSE]

Init ==
  /\ scene \in Scenes
  /\ thread = [t \in Threads |-> NoCall(scene.calls[t])]
  /\ gate = None /\ stopped = TRUE
  /\ operations = [context |-> 0, cancelled |-> FALSE]
  /\ live = {} /\ configured = FALSE /\ workers = {} /\ tasks = {}
  /\ protection = [c \in Caches |->
                     [generation |-> 0, refreshing |-> FALSE, content |-> 0]]
  /\ store = FALSE /\ snapshot = FALSE
  /\ CacheInit

-----------------------------------------------------------------------------
(* The gate.  sync.RWMutex: a writer that holds w is pending; it waits for  *)
(* the readers inside, and holds back the readers that come, which all      *)
(* enter when it leaves.                                                    *)

Kind(t) == Head(thread[t].calls)
Calling(t) == thread[t].calls # <<>>
Inside(t) == thread[t].at = "inside"
ReadersInside == {t \in Threads : Inside(t) /\ t # gate}

lifecycleVars == <<stopped, operations, live, configured, workers, protection, tasks, store,
                   snapshot, cacheVars>>

(* Mutant: the flag is read before the gate is entered.                     *)
EnteredAsArrived(t) == [thread[t] EXCEPT !.at = "inside", !.running = TRUE,
                                         !.context = operations.context]

(* Entering, a call reads the flag and takes the current context.           *)
Entered(t) ==
  [thread[t] EXCEPT !.at = "inside", !.running = ~stopped,
                    !.context = operations.context]

ReaderArrives(t) ==
  /\ thread[t].at = "idle" /\ Calling(t) /\ Kind(t) \in Readers
  /\ thread' = [thread EXCEPT ![t] =
       IF gate = None THEN Entered(t) ELSE [@ EXCEPT !.at = "queued"]]
  /\ UNCHANGED <<scene, gate, lifecycleVars>>

(* Mutant: shutdown leaves the operations to themselves.                    *)
CancelOperationsNever(t) ==
  /\ thread[t].at = "idle" /\ Calling(t) /\ Kind(t) = "shutdown"
  /\ thread' = [thread EXCEPT ![t].at = "cancelled"]
  /\ UNCHANGED <<scene, gate, lifecycleVars>>

(* Shutdown cancels the running operations before it waits for the gate.    *)
CancelOperations(t) ==
  /\ thread[t].at = "idle" /\ Calling(t) /\ Kind(t) = "shutdown"
  /\ operations' = [operations EXCEPT !.cancelled = @ \/ operations.context > 0]
  /\ thread' = [thread EXCEPT ![t].at = "cancelled"]
  /\ UNCHANGED <<scene, gate, stopped, live, configured, workers, protection, tasks, store,
                 snapshot, cacheVars>>

WriterAnnounces(t) ==
  /\ Calling(t) /\ Kind(t) \in Writers
  /\ thread[t].at = IF Kind(t) = "shutdown" THEN "cancelled" ELSE "idle"
  /\ gate = None
  /\ gate' = t
  /\ thread' = [thread EXCEPT ![t].at = "announced"]
  /\ UNCHANGED <<scene, lifecycleVars>>

(* A configuration of a stopped plugin answers plugin_stopped.              *)
WriterEnters(t) ==
  /\ thread[t].at = "announced" /\ ReadersInside = {}
  /\ thread' = [thread EXCEPT ![t] =
       [Entered(t) EXCEPT !.work =
          IF Kind(t) = "configure" /\ stopped THEN <<>> ELSE Work[Kind(t)]]]
  /\ UNCHANGED <<scene, gate, lifecycleVars>>

Returned(t) == NoCall(Tail(thread[t].calls))

WriterLeaves(t) ==
  /\ gate = t /\ Inside(t) /\ thread[t].work = <<>>
  /\ gate' = None
  /\ thread' = [u \in Threads |-> CASE u = t -> Returned(t)
                                    [] thread[u].at = "queued" -> Entered(u)
                                    [] OTHER -> thread[u]]
  /\ UNCHANGED <<scene, lifecycleVars>>

-----------------------------------------------------------------------------
(* The steps of a writer.                                                   *)

Does(t, op) == gate = t /\ Inside(t) /\ thread[t].work # <<>>
               /\ Head(thread[t].work)[1] = op
On(t) == Head(thread[t].work)[2]
Done(t) == thread' = [thread EXCEPT ![t].work = Tail(@)]

(* cliproxy_plugin_init: a new operation context, the old one cancelled.    *)
Initialise(t) ==
  /\ Does(t, "init") /\ Done(t)
  /\ operations' = [context |-> operations.context + 1, cancelled |-> FALSE]
  /\ stopped' = FALSE
  /\ UNCHANGED <<scene, gate, live, configured, workers, protection, tasks, store, snapshot, cacheVars>>

MarkStopped(t) ==
  /\ Does(t, "stopped") /\ Done(t)
  /\ stopped' = TRUE
  /\ UNCHANGED <<scene, gate, operations, live, configured, workers, protection, tasks, store,
                 snapshot, cacheVars>>

(* stop and stopLocked cancel the context of the manager's goroutines.  The *)
(* account protection also starts a new generation of its caches, and       *)
(* forgets the usage index but not the plans.                               *)
StoppedCaches ==
  [c \in Caches |-> [generation |-> protection[c].generation + 1, refreshing |-> FALSE,
                     content |-> IF c = "plans" THEN protection[c].content ELSE 0]]

Cancel(t) ==
  /\ Does(t, "cancel") /\ Done(t)
  /\ live' = live \ {On(t)}
  /\ protection' = IF On(t) = "protection" THEN StoppedCaches ELSE protection
  /\ UNCHANGED <<scene, gate, stopped, operations, configured, workers, tasks, store, snapshot,
                 cacheVars>>

(* wg.Wait.  The refreshes of the account protection are waited for a tenth *)
(* of a second each, then abandoned: that join may always return.           *)
Join(t) ==
  /\ Does(t, "join") /\ Done(t)
  /\ \A w \in workers : w.manager # On(t)
  /\ On(t) = "precompute" => refresh["async"].at = "idle"
  /\ UNCHANGED <<scene, gate, lifecycleVars>>

Worker(m, at) == [manager |-> m, task |-> "loop", at |-> at]

ConfiguredCaches ==
  [c \in Caches |->
     LET next == protection[c].generation + 1
     IN  [generation |-> next, refreshing |-> FALSE,
          content |-> IF c = "plans" /\ "protection" \in Enabled THEN next ELSE 0]]

(* configure: a new context and a new goroutine.  The account protection    *)
(* reads the plans itself, and has goroutines only when a pick asks.        *)
Start(t) ==
  /\ Does(t, "start") /\ Done(t)
  /\ configured' = (configured \/ On(t) = "precompute")
  /\ live' = live \union ({On(t)} \intersect Enabled)
  /\ workers' = workers \union
       {Worker(m, IF m \in {"refresher", "prices"} THEN "runs" ELSE "waits") :
          m \in ({On(t)} \intersect Enabled) \ {"protection"}}
  /\ protection' = IF On(t) = "protection" THEN ConfiguredCaches ELSE protection
  /\ UNCHANGED <<scene, gate, stopped, operations, tasks, store, snapshot, cacheVars>>

(* globalSchedulerState.invalidate: a refresh that has begun cannot publish *)
(* any more.                                                                *)
Invalidate(t) ==
  /\ Does(t, "invalidate") /\ Done(t)
  /\ snapshot' = FALSE
  /\ workers' = {IF w.at = "reads" THEN [w EXCEPT !.at = "overtaken"] ELSE w : w \in workers}
  /\ UNCHANGED <<scene, gate, stopped, operations, live, configured, protection, tasks, store, cacheVars>>

CloseStore(t) ==
  /\ Does(t, "close") /\ Done(t)
  /\ store' = FALSE
  /\ UNCHANGED <<scene, gate, stopped, operations, live, configured, workers, protection, tasks,
                 snapshot, cacheVars>>

WriterStep(t) ==
  \/ CancelOperations(t) \/ WriterAnnounces(t) \/ WriterEnters(t) \/ WriterLeaves(t)
  \/ Initialise(t) \/ MarkStopped(t) \/ Cancel(t) \/ Join(t) \/ Start(t)
  \/ Invalidate(t) \/ CloseStore(t)

-----------------------------------------------------------------------------
(* The methods, under the read side of the gate.  A statement fails once    *)
(* the context of the call is cancelled.                                    *)

Cancelled(t) == operations.cancelled \/ thread[t].context # operations.context
Runs(t, kinds) == /\ Inside(t) /\ thread[t].running
                  /\ Kind(t) \in kinds /\ ~Cancelled(t)
Return(t) == thread' = [thread EXCEPT ![t] = Returned(t)]

(* A pick opens the store, may publish the snapshot it queried, and starts  *)
(* the refresh of each cache it finds stale and not already refreshing.     *)
Pick(t) ==
  /\ Runs(t, {"pick"}) /\ Return(t)
  /\ store' = TRUE
  /\ snapshot' \in {snapshot, TRUE}
  /\ \E stale \in SUBSET {c \in Caches : "protection" \in live /\ ~protection[c].refreshing} :
       /\ protection' = [c \in Caches |-> [protection[c] EXCEPT
                           !.refreshing = @ \/ c \in stale]]
       /\ tasks' = tasks \union
            {[cache |-> c, generation |-> protection[c].generation, at |-> "starts"] :
               c \in stale}
  /\ UNCHANGED <<scene, gate, stopped, operations, live, configured, workers, cacheVars>>

RecordUsage(t) ==
  /\ Runs(t, {"usage"}) /\ Return(t)
  /\ store' = TRUE
  /\ CommitUsage
  /\ UNCHANGED <<scene, gate, stopped, operations, live, configured, workers, protection,
                 tasks, snapshot>>

(* Any other management request: an export, an import, a release.           *)
Manage(t) ==
  /\ Runs(t, {"manage"}) /\ Return(t)
  /\ store' = TRUE
  /\ UNCHANGED <<scene, gate, stopped, operations, live, configured, workers, protection,
                 tasks, snapshot, cacheVars>>

(* A summary request.  Computing it loads the model prices, and starts an   *)
(* update of prices that are too old, unless the updater is stopped or      *)
(* already updating.                                                        *)
UpdatingPrices == \E w \in workers : w.manager = "prices" /\ w.at = "updates"
EnsuredFresh ==
  IF "prices" \in live /\ ~UpdatingPrices
  THEN workers \union {[manager |-> "prices", task |-> "async", at |-> "updates"]}
  ELSE workers

Serving(t) == request[t].at # "idle"

Summarise(t) ==
  /\ Runs(t, {"normal", "fresh", "sync"})
  /\ store' = TRUE
  /\ \/ /\ BeginRequest(t, Kind(t), configured /\ "precompute" \in Enabled)
        /\ UNCHANGED <<thread, workers>>
     \/ /\ RequestRevision(t) \/ MissCache(t) \/ TagSummary(t)
        /\ UNCHANGED <<thread, workers>>
     \/ /\ AnswerFromCache(t, "precompute" \in live) \/ SaveSummary(t)
        /\ Return(t) /\ UNCHANGED workers
     \/ /\ ComputeSummary(t)
        /\ workers' \in {workers, EnsuredFresh}
        /\ IF request[t].mode = "plain" THEN Return(t) ELSE UNCHANGED thread
  /\ UNCHANGED <<scene, gate, stopped, operations, live, configured, protection, tasks,
                 snapshot>>

RememberRequest(t) ==
  /\ Inside(t) /\ RememberSummary(t)
  /\ UNCHANGED <<scene, thread, gate, stopped, operations, live, configured, workers,
                 protection, tasks, store, snapshot>>

(* A call returns: the plugin is stopped, its context was cancelled, or (a  *)
(* management request) its own statement failed.                            *)
Refused(t) ==
  /\ Inside(t) /\ Kind(t) \in Readers /\ Return(t)
  /\ ~thread[t].running \/ Cancelled(t)
  /\ IF Serving(t) THEN AbandonRequest(t) ELSE UNCHANGED cacheVars
  /\ UNCHANGED <<scene, gate, stopped, operations, live, configured, workers, protection,
                 tasks, store, snapshot>>

-----------------------------------------------------------------------------
(* The managers' goroutines.                                                *)

Moved(w, at) == workers' = (workers \ {w}) \union {[w EXCEPT !.at = at]}
Live(w) == w.manager \in live
Publishers == {"refresher", "maintenance"}
StoreUsers == Publishers \union {"quota", "retention"}

workerVars == <<scene, thread, gate, stopped, operations, live, configured, protection, tasks>>

(* The startup grace or the interval is over, or the refresher is woken.    *)
(* The precomputing loop refreshes the active keys only, or all of them in  *)
(* the legacy mode.                                                         *)
WorkerWakes(w) ==
  /\ w.at = "waits" /\ Live(w) /\ w.manager \in scene.due
  /\ Moved(w, "runs")
  /\ IF w.manager = "precompute" THEN (active \/ scene.legacy) /\ QueueRefresh
     ELSE UNCHANGED cacheVars
  /\ UNCHANGED <<workerVars, store, snapshot>>

WorkerOpensStore(w) ==
  /\ w.at = "runs" /\ Live(w) /\ w.manager \in StoreUsers
  /\ Moved(w, "works")
  /\ store' = TRUE
  /\ UNCHANGED <<workerVars, snapshot, cacheVars>>

(* beginRefresh and the reads of a snapshot, then its publication, which an *)
(* invalidation in between prevents and a cancellation does not.            *)
WorkerReadsState(w) ==
  /\ w.at = "works" /\ Live(w) /\ w.manager \in Publishers
  /\ Moved(w, "reads")
  /\ UNCHANGED <<workerVars, store, snapshot, cacheVars>>

WorkerPublishes(w) ==
  /\ w.at = "reads"
  /\ Moved(w, "waits")
  /\ snapshot' = TRUE
  /\ UNCHANGED <<workerVars, store, cacheVars>>

(* beginUpdate: one update of the prices at a time.                         *)
WorkerUpdates(w) ==
  /\ w.at = "runs" /\ Live(w) /\ w.manager = "prices" /\ ~UpdatingPrices
  /\ Moved(w, "updates")
  /\ UNCHANGED <<workerVars, store, snapshot, cacheVars>>

(* The round is done, or failed, or was cancelled.                          *)
WorkerEndsRound(w) ==
  /\ w.at # "waits"
  /\ w.manager = "precompute" => refresh["loop"].at = "idle"
  /\ IF w.task = "async" THEN workers' = workers \ {w} ELSE Moved(w, "waits")
  /\ UNCHANGED <<workerVars, store, snapshot, cacheVars>>

WorkerExits(w) ==
  /\ w.at = "waits" /\ ~Live(w)
  /\ workers' = workers \ {w}
  /\ UNCHANGED <<workerVars, store, snapshot, cacheVars>>

(* The refreshes of the summary cache, under the context of their manager.  *)
RefreshRuns(r) ==
  /\ "precompute" \in live
  /\ store' = TRUE
  /\ \/ BeginRefresh(r, scene.legacy) /\ UNCHANGED workers
     \/ ComputeRefresh(r) /\ workers' \in {workers, EnsuredFresh}
     \/ (FailRefresh(r) \/ SaveRefresh(r)) /\ UNCHANGED workers
  /\ UNCHANGED <<workerVars, snapshot>>

RefreshEnds(r) ==
  /\ \/ RememberRefresh(r)
     \/ "precompute" \notin live /\ AbandonRefresh(r)
  /\ UNCHANGED <<workerVars, workers, store, snapshot>>

-----------------------------------------------------------------------------
(* The refreshes of the account protection.                                 *)

Current(k) == "protection" \in live /\ protection[k.cache].generation = k.generation
TaskMoved(k, at) == tasks' = (tasks \ {k}) \union {[k EXCEPT !.at = at]}

taskVars == <<scene, thread, gate, stopped, operations, live, configured, workers, store,
              snapshot, cacheVars>>

(* usageMu lets one refresh of the usage index load at a time.              *)
TaskLoads(k) ==
  /\ k.at = "starts" /\ Current(k)
  /\ k.cache = "usage" => \A o \in tasks : o.cache = "usage" => o.at # "loads"
  /\ TaskMoved(k, "loads")
  /\ UNCHANGED <<taskVars, protection>>

TaskPublishes(k) ==
  /\ k.at = "loads" /\ Current(k)
  /\ protection' = [protection EXCEPT ![k.cache].content = k.generation,
                                     ![k.cache].refreshing = k.cache = "usage"]
  /\ IF k.cache = "usage" THEN TaskMoved(k, "ends") ELSE tasks' = tasks \ {k}
  /\ UNCHANGED taskVars

(* A load of the usage index fails, times out or is cancelled; a load of    *)
(* the plans is dropped when it was cancelled.                              *)
TaskGivesUp(k) ==
  /\ k.at \in {"starts", "loads"}
  /\ IF k.cache = "usage" THEN TaskMoved(k, "ends")
     ELSE ~Current(k) /\ tasks' = tasks \ {k}
  /\ UNCHANGED <<taskVars, protection>>

(* Mutant: the flag is cleared whatever generation it belongs to.           *)
FinishTaskOfAny(k) ==
  /\ k.at = "ends"
  /\ protection' = [protection EXCEPT ![k.cache].refreshing = FALSE]
  /\ tasks' = tasks \ {k}
  /\ UNCHANGED taskVars

FinishTask(k) ==
  /\ k.at = "ends"
  /\ protection' = IF Current(k) THEN [protection EXCEPT ![k.cache].refreshing = FALSE]
                   ELSE protection
  /\ tasks' = tasks \ {k}
  /\ UNCHANGED taskVars

-----------------------------------------------------------------------------
Tick ==
  /\ Age
  /\ UNCHANGED <<workerVars, workers, store, snapshot>>

ReaderStep(t) == \/ ReaderArrives(t) \/ Pick(t) \/ RecordUsage(t) \/ Manage(t)
                 \/ Summarise(t) \/ RememberRequest(t) \/ Refused(t)
WorkerStep(w) == \/ WorkerWakes(w) \/ WorkerOpensStore(w) \/ WorkerReadsState(w)
                 \/ WorkerPublishes(w) \/ WorkerUpdates(w) \/ WorkerEndsRound(w)
                 \/ WorkerExits(w)
TaskStep(k) == TaskLoads(k) \/ TaskPublishes(k) \/ TaskGivesUp(k) \/ FinishTask(k)

Next ==
  \/ \E t \in Threads : WriterStep(t) \/ ReaderStep(t)
  \/ \E w \in workers : WorkerStep(w)
  \/ \E r \in Refreshes : RefreshRuns(r) \/ RefreshEnds(r)
  \/ \E k \in tasks : TaskStep(k)
  \/ Tick

(* Fairness: a writer takes its next step; what was cancelled notices it.   *)
(* A call, a round or a load that nobody cancels may last for ever.         *)
Stops == \/ \E w \in workers : ~Live(w) /\ (WorkerEndsRound(w) \/ WorkerExits(w))
         \/ "precompute" \notin live /\ \E r \in Refreshes : RefreshEnds(r)

Spec == /\ Init /\ [][Next]_vars
        /\ \A t \in Threads : WF_vars(WriterStep(t) \/ Refused(t) \/ RememberRequest(t))
        /\ WF_vars(Stops)

-----------------------------------------------------------------------------
(* A shutdown leaves nothing behind: when no writer is inside the gate of a *)
(* stopped plugin, no goroutine of a manager is left, the store is closed,  *)
(* no scheduler snapshot is published, and no call that was queued behind   *)
(* the shutdown or starts later changes that (src/plugin_lifecycle.go:55,   *)
(* src/main.go:506).  Abandoned refreshes of the account protection may     *)
(* still run.                                                               *)
StoppedIsQuiet ==
  stopped /\ (gate = None \/ ~Inside(gate)) =>
    /\ live = {} /\ workers = {}
    /\ \A r \in Refreshes : refresh[r].at = "idle"
    /\ ~store /\ ~snapshot

(* A refresh abandoned by a stop never touches the cache of a later         *)
(* configuration: the flag that keeps a second refresh away is set exactly  *)
(* while one of the current generation runs, and a live cache holds nothing *)
(* another generation has loaded (src/account_protection.go:235, 784, 806). *)
RefreshesKeepTheirGeneration ==
  \A c \in Caches :
    LET cache == protection[c]
    IN  /\ cache.refreshing <=> \E k \in tasks : k.cache = c /\ k.generation = cache.generation
        /\ "protection" \in live => cache.content \in {0, cache.generation}

(* A shutdown ends, although calls that last for ever were running when it  *)
(* began: it cancels their context before it waits for the gate             *)
(* (src/main.go:495).                                                       *)
ShuttingDown(t) == Calling(t) /\ Kind(t) = "shutdown" /\ thread[t].at # "idle"
ShutdownEnds == \A t \in Threads : ShuttingDown(t) ~> ~ShuttingDown(t)
=============================================================================
