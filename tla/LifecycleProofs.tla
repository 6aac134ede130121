-------------------------- MODULE LifecycleProofs --------------------------
(***************************************************************************)
(* Proofs about Lifecycle and the SummaryCache it extends, for any threads, *)
(* any scenes (calls, enabled managers), any TTL, interval and number of    *)
(* commits.  The fairness of Spec plays no part: Behaviour is its safety.   *)
(***************************************************************************)
EXTENDS Lifecycle, SequenceTheorems, TLAPS

LEMMA Behaviour == Spec => Init /\ [][Next]_vars
  BY PTL DEF Spec

-----------------------------------------------------------------------------
(* The refreshes of the account protection.                                 *)

Task == [cache : Caches, generation : Nat, at : {"starts", "loads", "ends"}]

\* Among the refreshes there is at most one of each cache and generation, none of a
\* generation to come, and one of the current generation only while the protection
\* is live.
TasksKeepTheirGeneration ==
  /\ protection \in [Caches -> [generation : Nat, refreshing : BOOLEAN, content : Nat]]
  /\ tasks \subseteq Task
  /\ \A k \in tasks : k.generation <= protection[k.cache].generation
  /\ \A k, o \in tasks : k.cache = o.cache /\ k.generation = o.generation => k = o
  /\ \A k \in tasks :
       k.generation = protection[k.cache].generation => "protection" \in live

RefreshInv == TasksKeepTheirGeneration /\ RefreshesKeepTheirGeneration

LEMMA RefreshInvInit == Init => RefreshInv
  BY DEF Init, RefreshInv, TasksKeepTheirGeneration, RefreshesKeepTheirGeneration

\* What is left alone by every step but those of the next lemmas.
LEMMA RefreshUndisturbed ==
  ASSUME RefreshInv, UNCHANGED <<protection, tasks>>,
         "protection" \in live' <=> "protection" \in live
  PROVE  RefreshInv'
  BY DEF RefreshInv, TasksKeepTheirGeneration, RefreshesKeepTheirGeneration, Task

\* A stop and a configuration begin a generation no task belongs to.
LEMMA NewGeneration ==
  ASSUME RefreshInv, UNCHANGED tasks,
         protection' \in [Caches -> [generation : Nat, refreshing : BOOLEAN, content : Nat]],
         \A c \in Caches : /\ protection'[c].generation = protection[c].generation + 1
                           /\ ~protection'[c].refreshing
                           /\ "protection" \in live' =>
                                protection'[c].content \in {0, protection'[c].generation}
  PROVE  RefreshInv'
  <1> USE DEF RefreshInv, TasksKeepTheirGeneration, Task
  <1>1. \A k \in tasks' : k.cache \in Caches /\ k.generation \in Nat
                          /\ k.generation < protection'[k.cache].generation
    OBVIOUS
  <1>2. TasksKeepTheirGeneration'
    BY <1>1
  <1>3. RefreshesKeepTheirGeneration'
    BY <1>1 DEF RefreshesKeepTheirGeneration
  <1> QED
    BY <1>2, <1>3

LEMMA CancelKeepsRefreshes ==
  ASSUME RefreshInv, NEW t \in Threads, Cancel(t)
  PROVE  RefreshInv'
  <1>1. CASE On(t) = "protection"
    <2>1. protection' = StoppedCaches /\ live' = live \ {"protection"} /\ tasks' = tasks
      BY <1>1 DEF Cancel
    <2>2. protection \in [Caches -> [generation : Nat, refreshing : BOOLEAN, content : Nat]]
      BY DEF RefreshInv, TasksKeepTheirGeneration
    <2> QED
      BY <2>1, <2>2, NewGeneration DEF StoppedCaches
  <1>2. CASE On(t) # "protection"
    BY <1>2, RefreshUndisturbed DEF Cancel
  <1> QED
    BY <1>1, <1>2

LEMMA StartKeepsRefreshes ==
  ASSUME RefreshInv, NEW t \in Threads, Start(t)
  PROVE  RefreshInv'
  <1>1. CASE On(t) = "protection"
    <2>1. protection' = ConfiguredCaches /\ tasks' = tasks
      BY <1>1 DEF Start
    <2>2. protection \in [Caches -> [generation : Nat, refreshing : BOOLEAN, content : Nat]]
      BY DEF RefreshInv, TasksKeepTheirGeneration
    <2> QED
      BY <2>1, <2>2, NewGeneration DEF ConfiguredCaches
  <1>2. CASE On(t) # "protection"
    BY <1>2, RefreshUndisturbed DEF Start
  <1> QED
    BY <1>1, <1>2

\* A pick starts a refresh only where none of the current generation runs.
LEMMA PickKeepsRefreshes ==
  ASSUME RefreshInv, NEW t \in Threads, Pick(t)
  PROVE  RefreshInv'
  <1> DEFINE asked(stale) == {[cache |-> c, generation |-> protection[c].generation,
                               at |-> "starts"] : c \in stale}
  <1>1. PICK stale \in SUBSET {c \in Caches : "protection" \in live /\ ~protection[c].refreshing} :
          /\ protection' = [c \in Caches |-> [protection[c] EXCEPT
                              !.refreshing = @ \/ c \in stale]]
          /\ tasks' = tasks \union asked(stale)
    BY DEF Pick
  <1>2. live' = live
    BY DEF Pick
  <1>3. \A c \in stale : /\ c \in Caches /\ "protection" \in live
                         /\ \A k \in tasks : ~(k.cache = c /\
                                               k.generation = protection[c].generation)
    BY DEF RefreshInv, RefreshesKeepTheirGeneration
  <1>4. \A k \in asked(stale) : /\ k.cache \in stale /\ k \in Task
                                /\ k.generation = protection[k.cache].generation
                                /\ k.at = "starts"
    BY DEF RefreshInv, TasksKeepTheirGeneration, Task
  <1>5. \A c \in stale : \E k \in asked(stale) :
           k.cache = c /\ k.generation = protection[c].generation
    <2> TAKE c \in stale
    <2> DEFINE k == [cache |-> c, generation |-> protection[c].generation, at |-> "starts"]
    <2>1. k \in asked(stale) /\ k.cache = c /\ k.generation = protection[c].generation
      OBVIOUS
    <2> QED
      BY <2>1
  <1>6. \A k, o \in asked(stale) : k.cache = o.cache => k = o
    OBVIOUS
  <1> HIDE DEF asked
  <1>7. \A c \in Caches : /\ protection'[c].generation = protection[c].generation
                          /\ protection'[c].content = protection[c].content
                          /\ protection'[c].refreshing
                               = (protection[c].refreshing \/ c \in stale)
    BY <1>1 DEF RefreshInv, TasksKeepTheirGeneration
  <1>8. protection' \in [Caches -> [generation : Nat, refreshing : BOOLEAN, content : Nat]]
    BY <1>1 DEF RefreshInv, TasksKeepTheirGeneration
  <1>9. TasksKeepTheirGeneration'
    <2>1. tasks' \subseteq Task
      BY <1>1, <1>4 DEF RefreshInv, TasksKeepTheirGeneration
    <2>2. \A k \in tasks' : k.cache \in Caches /\ k.generation \in Nat
                            /\ k.generation <= protection'[k.cache].generation
      BY <1>1, <1>4, <1>7, <2>1 DEF RefreshInv, TasksKeepTheirGeneration, Task
    <2>3. \A k, o \in tasks' : k.cache = o.cache /\ k.generation = o.generation => k = o
      BY <1>1, <1>3, <1>4, <1>6 DEF RefreshInv, TasksKeepTheirGeneration
    <2>4. \A k \in tasks' : k.generation = protection'[k.cache].generation
                              => "protection" \in live'
      BY <1>1, <1>2, <1>3, <1>4, <1>7, <2>1 DEF RefreshInv, TasksKeepTheirGeneration, Task
    <2> QED
      BY <1>8, <2>1, <2>2, <2>3, <2>4 DEF TasksKeepTheirGeneration
  <1>10. RefreshesKeepTheirGeneration'
    <2> SUFFICES ASSUME NEW c \in Caches
                 PROVE  /\ protection'[c].refreshing <=>
                             \E k \in tasks' : k.cache = c
                                /\ k.generation = protection'[c].generation
                        /\ "protection" \in live' =>
                             protection'[c].content \in {0, protection'[c].generation}
      BY DEF RefreshesKeepTheirGeneration
    <2>1. protection[c].refreshing <=>
            \E k \in tasks : k.cache = c /\ k.generation = protection[c].generation
      BY DEF RefreshInv, RefreshesKeepTheirGeneration
    <2>2. "protection" \in live => protection[c].content \in {0, protection[c].generation}
      BY DEF RefreshInv, RefreshesKeepTheirGeneration
    <2>3. (protection[c].refreshing \/ c \in stale) <=>
            \E k \in tasks' : k.cache = c /\ k.generation = protection[c].generation
      BY <1>1, <1>4, <1>5, <2>1
    <2> QED
      BY <1>2, <1>7, <2>2, <2>3
  <1> QED
    BY <1>9, <1>10 DEF RefreshInv

\* A refresh moves within its generation; its end clears the flag of that generation.
LEMMA TaskKeepsRefreshes ==
  ASSUME RefreshInv, NEW k \in tasks, TaskStep(k)
  PROVE  RefreshInv'
  <1> DEFINE moved(at) == [k EXCEPT !.at = at]
  <1>1. /\ k \in Task /\ k.cache \in Caches /\ k.generation \in Nat
        /\ k.generation <= protection[k.cache].generation
        /\ protection \in [Caches -> [generation : Nat, refreshing : BOOLEAN, content : Nat]]
    BY DEF RefreshInv, TasksKeepTheirGeneration, Task
  <1>2. \A at \in {"starts", "loads", "ends"} :
          moved(at) \in Task /\ moved(at).cache = k.cache /\ moved(at).generation = k.generation
    BY <1>1 DEF Task
  <1>3. live' = live
    BY DEF TaskStep, TaskLoads, TaskPublishes, TaskGivesUp, FinishTask, taskVars
  <1>4. k.generation = protection[k.cache].generation <=> Current(k)
    BY DEF Current, RefreshInv, TasksKeepTheirGeneration
  \* The task moves on, and its cache keeps or sets the flag.
  <1>5. ASSUME NEW at \in {"starts", "loads", "ends"}, TaskMoved(k, at),
               \/ protection' = protection
               \/ /\ Current(k) /\ k.cache = "usage"
                  /\ protection' = [protection EXCEPT ![k.cache].content = k.generation,
                                                      ![k.cache].refreshing = TRUE]
        PROVE  RefreshInv'
    <2>1. tasks' = (tasks \ {k}) \union {moved(at)}
      BY <1>5 DEF TaskMoved
    <2> HIDE DEF moved
    <2>2. \A c \in Caches :
            /\ protection'[c].generation = protection[c].generation
            /\ protection'[c].refreshing = protection[c].refreshing
            /\ "protection" \in live =>
                 protection'[c].content \in {0, protection'[c].generation}
      BY <1>1, <1>4, <1>5 DEF RefreshInv, RefreshesKeepTheirGeneration
    <2>3. protection' \in [Caches -> [generation : Nat, refreshing : BOOLEAN, content : Nat]]
      BY <1>1, <1>5
    <2>4. TasksKeepTheirGeneration'
      BY <1>1, <1>2, <1>3, <2>1, <2>2, <2>3 DEF RefreshInv, TasksKeepTheirGeneration, Task
    <2>5. \A c \in Caches : \A g \in Nat :
            (\E o \in tasks : o.cache = c /\ o.generation = g)
              <=> (\E o \in tasks' : o.cache = c /\ o.generation = g)
      BY <1>2, <2>1
    <2>6. RefreshesKeepTheirGeneration'
      BY <1>1, <1>3, <2>2, <2>5 DEF RefreshInv, RefreshesKeepTheirGeneration
    <2> QED
      BY <2>4, <2>6 DEF RefreshInv
  \* The task is gone, and with it the flag if it was of its generation.
  <1>6. ASSUME tasks' = tasks \ {k},
               \/ ~Current(k) /\ protection' = protection
               \/ /\ Current(k)
                  /\ \E content \in {protection[k.cache].content, k.generation} :
                       protection' = [protection EXCEPT ![k.cache].content = content,
                                                        ![k.cache].refreshing = FALSE]
        PROVE  RefreshInv'
    <2>1. \A c \in Caches :
            /\ protection'[c].generation = protection[c].generation
            /\ protection'[c].refreshing <=>
                 protection[c].refreshing /\ ~(c = k.cache /\ Current(k))
            /\ "protection" \in live =>
                 protection'[c].content \in {0, protection'[c].generation}
      BY <1>1, <1>4, <1>6 DEF RefreshInv, RefreshesKeepTheirGeneration
    <2>2. protection' \in [Caches -> [generation : Nat, refreshing : BOOLEAN, content : Nat]]
      BY <1>1, <1>6
    <2>3. TasksKeepTheirGeneration'
      BY <1>3, <1>6, <2>1, <2>2 DEF RefreshInv, TasksKeepTheirGeneration, Task
    <2>4. \A c \in Caches :
            (\E o \in tasks' : o.cache = c /\ o.generation = protection[c].generation)
              <=> /\ \E o \in tasks : o.cache = c /\ o.generation = protection[c].generation
                  /\ ~(c = k.cache /\ Current(k))
      BY <1>4, <1>6 DEF RefreshInv, TasksKeepTheirGeneration
    <2>5. RefreshesKeepTheirGeneration'
      <3> SUFFICES ASSUME NEW c \in Caches
                   PROVE  /\ protection'[c].refreshing <=>
                               \E o \in tasks' : o.cache = c
                                  /\ o.generation = protection'[c].generation
                          /\ "protection" \in live' =>
                               protection'[c].content \in {0, protection'[c].generation}
        BY DEF RefreshesKeepTheirGeneration
      <3>1. protection[c].refreshing <=>
              \E o \in tasks : o.cache = c /\ o.generation = protection[c].generation
        BY DEF RefreshInv, RefreshesKeepTheirGeneration
      <3> QED
        BY <1>3, <2>1, <2>4, <3>1
    <2> QED
      BY <2>3, <2>5 DEF RefreshInv
  <1>7. CASE TaskLoads(k)
    BY <1>5, <1>7 DEF TaskLoads
  <1>8. CASE TaskPublishes(k)
    <2>1. CASE k.cache = "usage"
      BY <1>5, <1>8, <2>1 DEF TaskPublishes
    <2>2. CASE k.cache # "usage"
      BY <1>6, <1>8, <2>2 DEF TaskPublishes
    <2> QED
      BY <2>1, <2>2
  <1>9. CASE TaskGivesUp(k)
    BY <1>5, <1>6, <1>9 DEF TaskGivesUp
  <1>10. CASE FinishTask(k)
    <2>1. [protection EXCEPT ![k.cache].content = protection[k.cache].content,
                             ![k.cache].refreshing = FALSE]
            = [protection EXCEPT ![k.cache].refreshing = FALSE]
      BY <1>1
    <2> QED
      BY <1>6, <1>10, <2>1 DEF FinishTask
  <1> QED
    BY <1>7, <1>8, <1>9, <1>10 DEF TaskStep

LEMMA RefreshInvStep == RefreshInv /\ [Next]_vars => RefreshInv'
  <1> SUFFICES ASSUME RefreshInv, [Next]_vars PROVE RefreshInv'
    OBVIOUS
  <1>1. CASE UNCHANGED vars
    BY <1>1, RefreshUndisturbed DEF vars
  <1>2. ASSUME NEW t \in Threads, WriterStep(t) PROVE RefreshInv'
    <2>1. Cancel(t) \/ Start(t) \/ UNCHANGED <<live, protection, tasks>>
      BY <1>2 DEF WriterStep, CancelOperations, WriterAnnounces, WriterEnters, WriterLeaves,
                  Initialise, MarkStopped, Join, Invalidate, CloseStore, lifecycleVars
    <2> QED
      BY <2>1, CancelKeepsRefreshes, StartKeepsRefreshes, RefreshUndisturbed
  <1>3. ASSUME NEW t \in Threads, ReaderStep(t) PROVE RefreshInv'
    <2>1. Pick(t) \/ UNCHANGED <<live, protection, tasks>>
      BY <1>3 DEF ReaderStep, ReaderArrives, RecordUsage, Manage, Summarise, RememberRequest,
                  Refused, lifecycleVars
    <2> QED
      BY <2>1, PickKeepsRefreshes, RefreshUndisturbed
  <1>4. ASSUME NEW w \in workers, WorkerStep(w) PROVE RefreshInv'
    <2>1. UNCHANGED <<live, protection, tasks>>
      BY <1>4 DEF WorkerStep, WorkerWakes, WorkerOpensStore, WorkerReadsState, WorkerPublishes,
                  WorkerUpdates, WorkerEndsRound, WorkerExits, workerVars
    <2> QED
      BY <2>1, RefreshUndisturbed
  <1>5. ASSUME NEW r \in Refreshes, RefreshRuns(r) \/ RefreshEnds(r) PROVE RefreshInv'
    BY <1>5, RefreshUndisturbed DEF RefreshRuns, RefreshEnds, workerVars
  <1>6. CASE Tick
    BY <1>6, RefreshUndisturbed DEF Tick, workerVars
  <1> QED
    BY <1>1, <1>2, <1>3, <1>4, <1>5, <1>6, TaskKeepsRefreshes DEF Next

\* However often the plugin is reconfigured or stopped while refreshes run on, the
\* flag of a cache is set exactly while one of its generation runs, and a live cache
\* holds nothing of another generation (src/account_protection.go:784).
THEOREM RefreshesStayInGeneration == Spec => []RefreshesKeepTheirGeneration
  <1>1. RefreshInv => RefreshesKeepTheirGeneration
    BY DEF RefreshInv
  <1> QED
    BY <1>1, Behaviour, RefreshInvInit, RefreshInvStep, PTL

-----------------------------------------------------------------------------
(* The summary cache.                                                       *)

Request == [at : {"idle", "revision", "lookup", "compute", "tag", "remember", "save"},
            mode : {"none", "plain", "normal", "fresh", "sync"}, holds : Entry \union {None}]
Refresh == [at : {"idle", "queued", "compute", "remember", "save"},
            mode : {"none"}, holds : Entry \union {None}]

Covered(e) == e.sync \/ e.data >= e.revision

\* An entry that may be published: it names no revision to come, and has all of it.
Published(e) == e \in Entry /\ e.revision <= version /\ Covered(e)
Trustworthy(h) ==
  /\ h.at # "idle" /\ h.at # "queued" => h.holds \in Entry /\ h.holds.revision <= version
  /\ h.at \in {"remember", "save"} => Covered(h.holds)

CacheInv ==
  /\ version \in 0..MaxVersion
  /\ \A e \in {entry, saved} : e # None => Published(e)
  /\ request \in [Threads -> Request] /\ refresh \in [Refreshes -> Refresh]
  /\ \A t \in Threads : Trustworthy(request[t])
  /\ \A r \in Refreshes : Trustworthy(refresh[r])

LEMMA StaleMaxIsNat == StaleMax \in Nat
  BY CacheAssumption DEF StaleMax

LEMMA CacheInvInit == Init => CacheInv
  BY CacheAssumption DEF Init, CacheInit, CacheInv, Request, Refresh, Trustworthy, Idle

\* Ageing changes nothing but the age.
LEMMA OlderIsTheSame ==
  ASSUME NEW e \in Entry \union {None}
  PROVE  /\ Older(e) \in Entry \union {None}
         /\ Older(e) = None <=> e = None
         /\ e \in Entry => /\ Older(e) \in Entry
                           /\ Older(e).revision = e.revision /\ Older(e).data = e.data
                           /\ Older(e).sync = e.sync
  <1>1. CASE e = None
    BY <1>1, NoneAssumption DEF Older
  <1>2. CASE e \in Entry
    <2>1. e # None
      BY <1>2, NoneAssumption
    <2>2. CASE e.age > StaleMax
      BY <1>2, <2>1, <2>2 DEF Older
    <2>3. CASE ~(e.age > StaleMax)
      <3>1. Older(e) = [e EXCEPT !.age = e.age + 1]
        BY <2>1, <2>3 DEF Older
      <3>2. e.age + 1 \in 0..(StaleMax + 1)
        BY <1>2, <2>3, StaleMaxIsNat DEF Entry
      <3>3. /\ Older(e) \in Entry /\ Older(e).revision = e.revision
            /\ Older(e).data = e.data /\ Older(e).sync = e.sync
        BY <1>2, <3>1, <3>2 DEF Entry
      <3> QED
        BY <2>1, <3>3, NoneAssumption
    <2> QED
      BY <2>2, <2>3
  <1> QED
    BY <1>1, <1>2

LEMMA AgeKeepsCache ==
  ASSUME CacheInv, Age
  PROVE  CacheInv'
  <1> USE DEF CacheInv
  <1>1. version' = version
    BY DEF Age
  <1>2. \A e \in {entry, saved} : e \in Entry \union {None}
    BY DEF Published
  <1>3. \A e \in {entry', saved'} : e # None => Published(e)'
    <2>1. \A e \in {entry, saved} : Older(e) # None => e # None /\ Published(e)
      BY <1>2, OlderIsTheSame
    <2>2. \A e \in {entry, saved} : Older(e) # None =>
             /\ Older(e) \in Entry /\ Older(e).revision <= version
             /\ Covered(Older(e))
      BY <1>2, <2>1, OlderIsTheSame DEF Published, Covered
    <2>3. entry' = Older(entry) /\ saved' = Older(saved)
      BY DEF Age
    <2> QED
      BY <1>1, <2>2, <2>3 DEF Published
  <1>4. ASSUME NEW h, NEW S, h.holds \in Entry \union {None}, Trustworthy(h), NEW g,
               g = [h EXCEPT !.holds = Older(@)], h \in Request \/ h \in Refresh
        PROVE  /\ h \in Request => g \in Request
               /\ h \in Refresh => g \in Refresh
               /\ Trustworthy(g)
    <2>1. g.at = h.at /\ g.mode = h.mode /\ g.holds = Older(h.holds)
      BY <1>4 DEF Request, Refresh
    <2>2. /\ Older(h.holds) \in Entry \union {None}
          /\ h.holds \in Entry => /\ Older(h.holds) \in Entry
                                  /\ Older(h.holds).revision = h.holds.revision
                                  /\ Covered(Older(h.holds)) <=> Covered(h.holds)
      BY <1>4, OlderIsTheSame DEF Covered
    <2>3. Trustworthy(g)
      BY <1>4, <2>1, <2>2 DEF Trustworthy
    <2>4. /\ h \in Request => g \in Request
          /\ h \in Refresh => g \in Refresh
      BY <1>4, <2>2 DEF Request, Refresh
    <2> QED
      BY <2>3, <2>4
  <1>5. /\ request' \in [Threads -> Request] /\ \A t \in Threads : Trustworthy(request'[t])
    <2>1. request' = [t \in Threads |-> [request[t] EXCEPT !.holds = Older(@)]]
      BY DEF Age
    <2>2. \A t \in Threads : request[t] \in Request /\ Trustworthy(request[t])
      OBVIOUS
    <2>3. \A t \in Threads : request[t].holds \in Entry \union {None}
      BY <2>2 DEF Request
    <2>4. \A t \in Threads : request'[t] \in Request /\ Trustworthy(request'[t])
      BY <1>4, <2>1, <2>2, <2>3
    <2> QED
      BY <2>1, <2>4
  <1>6. /\ refresh' \in [Refreshes -> Refresh] /\ \A r \in Refreshes : Trustworthy(refresh'[r])
    <2>1. refresh' = [r \in Refreshes |-> [refresh[r] EXCEPT !.holds = Older(@)]]
      BY DEF Age
    <2>2. \A r \in Refreshes : refresh[r] \in Refresh /\ Trustworthy(refresh[r])
      OBVIOUS
    <2>3. \A r \in Refreshes : refresh[r].holds \in Entry \union {None}
      BY <2>2 DEF Refresh
    <2>4. \A r \in Refreshes : refresh'[r] \in Refresh /\ Trustworthy(refresh'[r])
      BY <1>4, <2>1, <2>2, <2>3
    <2> QED
      BY <2>1, <2>4
  <1> QED
    BY <1>1, <1>3, <1>5, <1>6 DEF Trustworthy

\* A step of one request that publishes nothing.
LEMMA RequestMoves ==
  ASSUME CacheInv, UNCHANGED <<version, entry, saved, refresh>>, NEW t \in Threads,
         NEW q \in Request, Trustworthy(q), request' = [request EXCEPT ![t] = q]
  PROVE  CacheInv'
  <1>1. request' \in [Threads -> Request] /\ \A u \in Threads : Trustworthy(request'[u])
    BY DEF CacheInv
  <1> QED
    BY <1>1 DEF CacheInv, Trustworthy, Published

LEMMA RefreshMoves ==
  ASSUME CacheInv, UNCHANGED <<version, entry, saved, request>>, NEW r \in Refreshes,
         NEW q \in Refresh, Trustworthy(q), refresh' = [refresh EXCEPT ![r] = q]
  PROVE  CacheInv'
  <1>1. refresh' \in [Refreshes -> Refresh] /\ \A u \in Refreshes : Trustworthy(refresh'[u])
    BY DEF CacheInv
  <1> QED
    BY <1>1 DEF CacheInv, Trustworthy, Published

\* A step that publishes what a request or a refresh holds, or moves an entry.
LEMMA EntryMoves ==
  ASSUME CacheInv, UNCHANGED version, NEW e, Published(e),
         entry' \in {entry, saved, e}, saved' \in {saved, e},
         request' \in [Threads -> Request], refresh' \in [Refreshes -> Refresh],
         \A t \in Threads : Trustworthy(request'[t]),
         \A r \in Refreshes : Trustworthy(refresh'[r])
  PROVE  CacheInv'
  BY DEF CacheInv, Trustworthy, Published

LEMMA IdleIsTrustworthy ==
  /\ Idle \in Request /\ Trustworthy(Idle)
  /\ Idle \in Refresh
  BY DEF Idle, Request, Refresh, Trustworthy

LEMMA BlankIsAnEntry == Blank \in Entry /\ Blank.revision = 0
  <1>1. 0 \in 0..MaxVersion /\ 0 \in 0..(StaleMax + 1)
    BY CacheAssumption, StaleMaxIsNat
  <1> QED
    BY <1>1 DEF Blank, Entry

\* What a record of an entry becomes when one of its fields is set to a revision.
LEMMA EntryFields ==
  ASSUME NEW e \in Entry, NEW n \in 0..MaxVersion
  PROVE  /\ [e EXCEPT !.revision = n] \in Entry /\ [e EXCEPT !.revision = n].revision = n
         /\ [e EXCEPT !.data = n] \in Entry
         /\ [e EXCEPT !.data = n].data = n /\ [e EXCEPT !.data = n].revision = e.revision
         /\ [e EXCEPT !.revision = n, !.sync = TRUE] \in Entry
         /\ [e EXCEPT !.revision = n, !.sync = TRUE].revision = n
         /\ [e EXCEPT !.revision = n, !.sync = TRUE].sync
  BY DEF Entry

LEMMA RequestKeepsCache ==
  ASSUME CacheInv, NEW t \in Threads
  PROVE  /\ RequestRevision(t) => CacheInv'
         /\ MissCache(t) => CacheInv'
         /\ ComputeSummary(t) => CacheInv'
         /\ TagSummary(t) => CacheInv'
         /\ AbandonRequest(t) => CacheInv'
  <1> DEFINE old == request[t]
             held == old.holds
  <1>1. /\ old \in Request /\ Trustworthy(old) /\ version \in 0..MaxVersion /\ version \in Nat
        /\ request \in [Threads -> Request]
    BY DEF CacheInv
  <1>2. old.at # "idle" => old.at # "queued" /\ held \in Entry /\ held.revision <= version
    BY <1>1 DEF Trustworthy, Request
  <1>3. ASSUME RequestRevision(t) PROVE CacheInv'
    <2> DEFINE e == [held EXCEPT !.revision = version]
               q == [old EXCEPT !.at = "lookup", !.holds = e]
    <2>1. e \in Entry /\ e.revision = version
      BY <1>1, <1>2, <1>3, EntryFields DEF RequestRevision
    <2>2. request' = [request EXCEPT ![t] = q]
      BY <1>1, <1>3 DEF RequestRevision, Request
    <2> HIDE DEF e
    <2>3. q \in Request /\ q.at = "lookup" /\ q.holds = e
      BY <1>1, <2>1 DEF Request
    <2> HIDE DEF q
    <2>4. Trustworthy(q)
      BY <1>1, <2>1, <2>3 DEF Trustworthy
    <2> QED
      BY <1>3, <2>3, <2>4, <2>2, RequestMoves DEF RequestRevision
  <1>4. ASSUME MissCache(t) PROVE CacheInv'
    <2> DEFINE q == [old EXCEPT !.at = "compute", !.mode = IF @ = "fresh" THEN "sync" ELSE @]
    <2>1. held \in Entry /\ held.revision <= version
      BY <1>2, <1>4 DEF MissCache
    <2>2. q \in Request /\ q.at = "compute" /\ q.holds = held
      BY <1>1 DEF Request
    <2>3. Trustworthy(q)
      BY <2>1, <2>2 DEF Trustworthy
    <2>4. request' = [request EXCEPT ![t] = q]
      BY <1>1, <1>4 DEF MissCache, Request
    <2> QED
      BY <1>4, <2>2, <2>3, <2>4, RequestMoves DEF MissCache
  <1>5. ASSUME ComputeSummary(t) PROVE CacheInv'
    <2> DEFINE e == [held EXCEPT !.data = version]
               computed(at) == [old EXCEPT !.at = at, !.holds = e]
    <2>1. e \in Entry /\ e.data = version /\ e.revision <= version
      BY <1>1, <1>2, <1>5, EntryFields DEF ComputeSummary
    <2>2. \/ request' = [request EXCEPT ![t] = Idle]
          \/ request' = [request EXCEPT ![t] = computed("tag")]
          \/ request' = [request EXCEPT ![t] = computed("remember")]
      BY <1>1, <1>5 DEF ComputeSummary, Request
    <2> HIDE DEF e
    <2>3. \A at \in {"tag", "remember"} :
            computed(at) \in Request /\ computed(at).at = at /\ computed(at).holds = e
      BY <1>1, <2>1 DEF Request
    <2> HIDE DEF computed
    <2>4. Covered(e)
      BY <2>1 DEF Covered
    <2>5. \A at \in {"tag", "remember"} : Trustworthy(computed(at))
      BY <2>1, <2>3, <2>4 DEF Trustworthy
    <2> QED
      BY <1>5, <2>3, <2>5, <2>2, RequestMoves, IdleIsTrustworthy DEF ComputeSummary
  <1>6. ASSUME TagSummary(t) PROVE CacheInv'
    <2> DEFINE e == [held EXCEPT !.revision = version, !.sync = TRUE]
               q == [old EXCEPT !.at = "remember", !.holds = e]
    <2>1. e \in Entry /\ e.revision = version /\ e.sync
      BY <1>1, <1>2, <1>6, EntryFields DEF TagSummary
    <2>2. request' = [request EXCEPT ![t] = q]
      BY <1>1, <1>6 DEF TagSummary, Request
    <2> HIDE DEF e
    <2>3. q \in Request /\ q.at = "remember" /\ q.holds = e
      BY <1>1, <2>1 DEF Request
    <2> HIDE DEF q
    <2>4. Trustworthy(q)
      BY <1>1, <2>1, <2>3 DEF Trustworthy, Covered
    <2> QED
      BY <1>6, <2>3, <2>4, <2>2, RequestMoves DEF TagSummary
  <1>7. ASSUME AbandonRequest(t) PROVE CacheInv'
    BY <1>7, RequestMoves, IdleIsTrustworthy DEF AbandonRequest
  <1> QED
    BY <1>3, <1>4, <1>5, <1>6, <1>7

LEMMA RequestBegins ==
  ASSUME CacheInv, NEW t \in Threads, NEW enabled,
         NEW mode \in {"normal", "fresh", "sync"}, BeginRequest(t, mode, enabled)
  PROVE  CacheInv'
  <1> DEFINE begun(at, path) == [at |-> at, mode |-> path, holds |-> Blank]
  <1>1. \E at \in {"compute", "revision"}, path \in {"plain", "normal", "fresh", "sync"} :
          request' = [request EXCEPT ![t] = begun(at, path)]
    BY DEF BeginRequest
  <1>2. \A at \in {"compute", "revision"}, path \in {"plain", "normal", "fresh", "sync"} :
          begun(at, path) \in Request /\ begun(at, path).at = at /\ begun(at, path).holds = Blank
    BY BlankIsAnEntry DEF Request
  <1> HIDE DEF begun
  <1>3. version \in Nat /\ 0 <= version
    BY CacheAssumption DEF CacheInv
  <1>4. \A at \in {"compute", "revision"}, path \in {"plain", "normal", "fresh", "sync"} :
          Trustworthy(begun(at, path))
    BY <1>2, <1>3, BlankIsAnEntry DEF Trustworthy
  <1>5. PICK at \in {"compute", "revision"}, path \in {"plain", "normal", "fresh", "sync"} :
          request' = [request EXCEPT ![t] = begun(at, path)]
    BY <1>1
  <1>6. UNCHANGED <<version, entry, saved, refresh>>
    BY DEF BeginRequest
  <1> QED
    BY <1>2, <1>4, <1>5, <1>6, RequestMoves

\* What a lookup finds is one of the two copies of the entry.
LEMMA OffersAreHeld ==
  ASSUME NEW t \in Threads, Offers(t) # {}
  PROVE  LET found == Held[CHOOSE i \in Offers(t) : \A j \in Offers(t) : i <= j]
         IN  found \in {entry, saved} /\ found # None
  <1> DEFINE first == CHOOSE i \in Offers(t) : \A j \in Offers(t) : i <= j
  <1>1. DOMAIN Held = {1, 2} /\ Held[1] = entry /\ Held[2] = saved
    BY DEF Held
  <1>2. \A i \in Offers(t) : i \in {1, 2} /\ Held[i] # None
    BY <1>1 DEF Offers, Hit, Usable
  <1>3. \E i \in Offers(t) : \A j \in Offers(t) : i <= j
    <2>1. CASE 1 \in Offers(t)
      BY <1>2, <2>1
    <2>2. CASE 1 \notin Offers(t)
      BY <1>2, <2>2
    <2> QED
      BY <2>1, <2>2
  <1>4. first \in Offers(t)
    BY <1>3
  <1> QED
    BY <1>1, <1>2, <1>4

\* An asynchronous refresh is asked for.
LEMMA QueuedIsTrustworthy ==
  ASSUME CacheInv, NEW r \in Refreshes, refresh[r].at = "idle"
  PROVE  LET after == [refresh EXCEPT ![r].at = "queued"]
         IN  after \in [Refreshes -> Refresh] /\ \A o \in Refreshes : Trustworthy(after[o])
  <1> DEFINE q == [refresh[r] EXCEPT !.at = "queued"]
  <1>1. refresh \in [Refreshes -> Refresh] /\ refresh[r] \in Refresh
    BY DEF CacheInv
  <1>2. [refresh EXCEPT ![r].at = "queued"] = [refresh EXCEPT ![r] = q]
    BY <1>1
  <1>3. q \in Refresh /\ q.at = "queued"
    BY <1>1 DEF Refresh
  <1>4. Trustworthy(q)
    BY <1>3 DEF Trustworthy
  <1> HIDE DEF q
  <1> QED
    BY <1>1, <1>2, <1>3, <1>4 DEF CacheInv

LEMMA RequestPublishes ==
  ASSUME CacheInv, NEW t \in Threads, NEW accepting
  PROVE  /\ AnswerFromCache(t, accepting) => CacheInv'
         /\ RememberSummary(t) => CacheInv'
         /\ SaveSummary(t) => CacheInv'
  <1>1. /\ request \in [Threads -> Request] /\ request[t] \in Request
        /\ refresh \in [Refreshes -> Refresh]
        /\ \A u \in Threads : Trustworthy(request[u])
        /\ \A r \in Refreshes : Trustworthy(refresh[r])
    BY DEF CacheInv
  <1>2. LET done == [request EXCEPT ![t] = Idle]
        IN  done \in [Threads -> Request] /\ \A u \in Threads : Trustworthy(done[u])
    BY <1>1, IdleIsTrustworthy
  <1>3. ASSUME AnswerFromCache(t, accepting) PROVE CacheInv'
    <2>1. PICK e \in {entry, saved} : e # None /\ entry' = e
      BY <1>3, OffersAreHeld DEF AnswerFromCache
    <2>2. Published(e)
      BY <2>1 DEF CacheInv
    <2>3. refresh' \in [Refreshes -> Refresh] /\ \A r \in Refreshes : Trustworthy(refresh'[r])
      BY <1>1, <1>3, QueuedIsTrustworthy DEF AnswerFromCache, Refreshes
    <2> QED
      BY <1>2, <1>3, <2>1, <2>2, <2>3, EntryMoves DEF AnswerFromCache
  <1>4. request[t].at \in {"remember", "save"} => Published(request[t].holds)
    BY <1>1 DEF Trustworthy, Published
  <1>5. ASSUME RememberSummary(t) PROVE CacheInv'
    <2> DEFINE q == [request[t] EXCEPT !.at = "save"]
    <2>1. q \in Request /\ q.at = "save" /\ q.holds = request[t].holds
      BY <1>1 DEF Request
    <2>2. request' = [request EXCEPT ![t] = q]
      BY <1>1, <1>5 DEF RememberSummary, Request
    <2> HIDE DEF q
    <2>3. Trustworthy(q)
      BY <1>4, <1>5, <2>1 DEF RememberSummary, Trustworthy, Published
    <2>4. request' \in [Threads -> Request] /\ \A u \in Threads : Trustworthy(request'[u])
      BY <1>1, <2>1, <2>2, <2>3
    <2> QED
      BY <1>1, <1>4, <1>5, <2>4, EntryMoves DEF RememberSummary
  <1>6. ASSUME SaveSummary(t) PROVE CacheInv'
    BY <1>1, <1>2, <1>4, <1>6, EntryMoves DEF SaveSummary
  <1> QED
    BY <1>3, <1>5, <1>6

\* The steps of the precomputing loop and of the asynchronous refresh.
LEMMA RefreshKeepsCache ==
  ASSUME CacheInv, NEW r \in Refreshes, NEW legacy
  PROVE  /\ BeginRefresh(r, legacy) => CacheInv'
         /\ ComputeRefresh(r) => CacheInv'
         /\ FailRefresh(r) => CacheInv'
         /\ RememberRefresh(r) => CacheInv'
         /\ SaveRefresh(r) => CacheInv'
         /\ AbandonRefresh(r) => CacheInv'
  <1> DEFINE old == refresh[r]
             held == old.holds
  <1>1. /\ old \in Refresh /\ Trustworthy(old) /\ version \in 0..MaxVersion /\ version \in Nat
        /\ refresh \in [Refreshes -> Refresh] /\ request \in [Threads -> Request]
        /\ \A o \in Refreshes : Trustworthy(refresh[o])
        /\ \A t \in Threads : Trustworthy(request[t])
    BY DEF CacheInv
  <1>2. ASSUME BeginRefresh(r, legacy) PROVE CacheInv'
    <2> DEFINE e == [Blank EXCEPT !.revision = version]
               q == [old EXCEPT !.at = "compute", !.holds = e]
    <2>1. e \in Entry /\ e.revision = version
      BY <1>1, BlankIsAnEntry, EntryFields
    <2>2. refresh' = [refresh EXCEPT ![r] = Idle] \/ refresh' = [refresh EXCEPT ![r] = q]
      BY <1>1, <1>2 DEF BeginRefresh, Refresh
    <2> HIDE DEF e
    <2>3. q \in Refresh /\ q.at = "compute" /\ q.holds = e
      BY <1>1, <2>1 DEF Refresh
    <2> HIDE DEF q
    <2>4. Trustworthy(q)
      BY <1>1, <2>1, <2>3 DEF Trustworthy
    <2>5. UNCHANGED <<version, entry, saved, request>>
      BY <1>2 DEF BeginRefresh
    <2> QED
      BY <2>2, <2>3, <2>4, <2>5, RefreshMoves, IdleIsTrustworthy
  <1>3. ASSUME ComputeRefresh(r) PROVE CacheInv'
    <2> DEFINE e == [held EXCEPT !.data = version]
               q == [old EXCEPT !.at = "remember", !.holds = e]
    <2>1. held \in Entry /\ held.revision <= version
      BY <1>1, <1>3 DEF ComputeRefresh, Trustworthy
    <2>2. e \in Entry /\ e.data = version /\ e.revision <= version
      BY <1>1, <2>1, EntryFields
    <2>3. refresh' = [refresh EXCEPT ![r] = q]
      BY <1>1, <1>3 DEF ComputeRefresh, Refresh
    <2> HIDE DEF e
    <2>4. q \in Refresh /\ q.at = "remember" /\ q.holds = e
      BY <1>1, <2>2 DEF Refresh
    <2> HIDE DEF q
    <2>5. Trustworthy(q)
      BY <2>2, <2>4 DEF Trustworthy, Covered
    <2> QED
      BY <1>3, <2>3, <2>4, <2>5, RefreshMoves DEF ComputeRefresh
  <1>4. ASSUME FailRefresh(r) PROVE CacheInv'
    <2> DEFINE q == [old EXCEPT !.at = "save", !.holds = entry]
    <2>1. \/ refresh' = [refresh EXCEPT ![r] = Idle]
          \/ entry # None /\ refresh' = [refresh EXCEPT ![r] = q]
      BY <1>1, <1>4 DEF FailRefresh, Refresh
    <2>2. entry # None => Published(entry)
      BY DEF CacheInv
    <2>3. entry # None => q \in Refresh /\ q.at = "save" /\ q.holds = entry
      BY <1>1, <2>2 DEF Refresh, Published
    <2> HIDE DEF q
    <2>4. entry # None => Trustworthy(q)
      BY <2>2, <2>3 DEF Trustworthy, Published
    <2>5. UNCHANGED <<version, entry, saved, request>>
      BY <1>4 DEF FailRefresh
    <2> QED
      BY <2>1, <2>3, <2>4, <2>5, RefreshMoves, IdleIsTrustworthy
  <1>5. old.at \in {"remember", "save"} => Published(held)
    BY <1>1 DEF Trustworthy, Published
  <1>6. LET done == [refresh EXCEPT ![r] = Idle]
        IN  done \in [Refreshes -> Refresh] /\ \A o \in Refreshes : Trustworthy(done[o])
    BY <1>1, IdleIsTrustworthy
  <1>7. ASSUME RememberRefresh(r) PROVE CacheInv'
    <2> DEFINE q == [old EXCEPT !.at = "save"]
    <2>1. q \in Refresh /\ q.at = "save" /\ q.holds = held
      BY <1>1 DEF Refresh
    <2>2. refresh' = [refresh EXCEPT ![r] = q]
      BY <1>1, <1>7 DEF RememberRefresh, Refresh
    <2> HIDE DEF q
    <2>3. Trustworthy(q)
      BY <1>5, <1>7, <2>1 DEF RememberRefresh, Trustworthy, Published
    <2>4. refresh' \in [Refreshes -> Refresh] /\ \A o \in Refreshes : Trustworthy(refresh'[o])
      BY <1>1, <2>1, <2>2, <2>3
    <2> QED
      BY <1>1, <1>5, <1>7, <2>4, EntryMoves DEF RememberRefresh
  <1>8. ASSUME SaveRefresh(r) PROVE CacheInv'
    BY <1>1, <1>5, <1>6, <1>8, EntryMoves DEF SaveRefresh
  <1>9. ASSUME AbandonRefresh(r) PROVE CacheInv'
    BY <1>9, RefreshMoves, IdleIsTrustworthy DEF AbandonRefresh
  <1> QED
    BY <1>2, <1>3, <1>4, <1>7, <1>8, <1>9

LEMMA QueueKeepsCache ==
  ASSUME CacheInv, QueueRefresh
  PROVE  CacheInv'
  <1>1. refresh' \in [Refreshes -> Refresh] /\ \A o \in Refreshes : Trustworthy(refresh'[o])
    BY QueuedIsTrustworthy DEF QueueRefresh, Refreshes
  <1> QED
    BY <1>1 DEF QueueRefresh, CacheInv, Trustworthy, Published

\* A commit makes every revision older.
LEMMA CommitKeepsCache ==
  ASSUME CacheInv, CommitUsage
  PROVE  CacheInv'
  <1>1. version \in Nat /\ version' = version + 1 /\ version' \in 0..MaxVersion
    BY CacheAssumption DEF CommitUsage, CacheInv
  <1>2. \A e \in Entry : e.revision \in Nat /\ (e.revision <= version => e.revision <= version')
    BY <1>1 DEF Entry
  <1> QED
    BY <1>1, <1>2 DEF CommitUsage, CacheInv, Published, Trustworthy

LEMMA CacheInvStep == CacheInv /\ [Next]_vars => CacheInv'
  <1> SUFFICES ASSUME CacheInv, [Next]_vars PROVE CacheInv'
    OBVIOUS
  <1>1. ASSUME UNCHANGED cacheVars PROVE CacheInv'
    BY <1>1 DEF cacheVars, CacheInv, Published, Trustworthy
  <1>2. CASE UNCHANGED vars
    BY <1>1, <1>2 DEF vars
  <1>3. ASSUME NEW t \in Threads, WriterStep(t) PROVE CacheInv'
    <2>1. UNCHANGED cacheVars
      BY <1>3 DEF WriterStep, CancelOperations, WriterAnnounces, WriterEnters, WriterLeaves,
                  Initialise, MarkStopped, Cancel, Join, Start, Invalidate, CloseStore,
                  lifecycleVars
    <2> QED
      BY <1>1, <2>1
  <1>4. ASSUME NEW t \in Threads, ReaderStep(t) PROVE CacheInv'
    <2>1. CASE ReaderArrives(t) \/ Pick(t) \/ Manage(t)
      BY <1>1, <2>1 DEF ReaderArrives, Pick, Manage, lifecycleVars
    <2>2. CASE RecordUsage(t)
      BY <2>2, CommitKeepsCache DEF RecordUsage
    <2>3. CASE Summarise(t)
      <3>1. Kind(t) \in {"normal", "fresh", "sync"}
        BY <2>3 DEF Summarise, Runs
      <3>2. \/ BeginRequest(t, Kind(t), configured /\ "precompute" \in Enabled)
            \/ RequestRevision(t) \/ MissCache(t) \/ TagSummary(t) \/ ComputeSummary(t)
            \/ AnswerFromCache(t, "precompute" \in live) \/ SaveSummary(t)
        BY <2>3 DEF Summarise
      <3> QED
        BY <3>1, <3>2, RequestBegins, RequestKeepsCache, RequestPublishes
    <2>4. CASE RememberRequest(t)
      BY <2>4, RequestPublishes DEF RememberRequest
    <2>5. CASE Refused(t)
      BY <1>1, <2>5, RequestKeepsCache DEF Refused
    <2> QED
      BY <1>4, <2>1, <2>2, <2>3, <2>4, <2>5 DEF ReaderStep
  <1>5. ASSUME NEW w \in workers, WorkerStep(w) PROVE CacheInv'
    <2>1. QueueRefresh \/ UNCHANGED cacheVars
      BY <1>5 DEF WorkerStep, WorkerWakes, WorkerOpensStore, WorkerReadsState, WorkerPublishes,
                  WorkerUpdates, WorkerEndsRound, WorkerExits
    <2> QED
      BY <1>1, <2>1, QueueKeepsCache
  <1>6. ASSUME NEW r \in Refreshes, RefreshRuns(r) \/ RefreshEnds(r) PROVE CacheInv'
    BY <1>6, RefreshKeepsCache DEF RefreshRuns, RefreshEnds
  <1>7. ASSUME NEW k \in tasks, TaskStep(k) PROVE CacheInv'
    BY <1>1, <1>7 DEF TaskStep, TaskLoads, TaskPublishes, TaskGivesUp, FinishTask, taskVars
  <1>8. CASE Tick
    BY <1>8, AgeKeepsCache DEF Tick
  <1> QED
    BY <1>2, <1>3, <1>4, <1>5, <1>6, <1>7, <1>8 DEF Next

\* Whatever requests, refreshes and commits overlap, an entry lacks no commit of the
\* revision it is named after, forced synchronous refreshes excepted
\* (src/summary.go:188, 437).
THEOREM EntriesCoverTheirRevision == Spec => []RevisionsAreCovered
  <1>1. CacheInv => RevisionsAreCovered
    BY DEF CacheInv, Published, Covered, RevisionsAreCovered
  <1> QED
    BY <1>1, Behaviour, CacheInvInit, CacheInvStep, PTL

-----------------------------------------------------------------------------
(* The gate, and what a stopped plugin leaves behind.                       *)

Op == {"init", "stopped", "cancel", "join", "start", "invalidate", "close"}
Step == Op \X (Managers \union {"plugin"})
Call == [calls : Seq(Writers \union Readers),
         at : {"idle", "queued", "cancelled", "announced", "inside"},
         work : Seq(Step), context : Nat, running : BOOLEAN]
Goroutine == [manager : Managers, task : {"loop", "async"},
              at : {"waits", "runs", "works", "reads", "overtaken", "updates"}]

\* At most one writer holds the gate, no reader is inside with it, and a reader
\* inside runs only while the plugin is not stopped.
GateInv ==
  /\ thread \in [Threads -> Call] /\ gate \in Threads \union {None}
  /\ operations \in [context : Nat, cancelled : BOOLEAN] /\ stopped \in BOOLEAN
  /\ \A t \in Threads :
       /\ thread[t].at # "idle" => Calling(t)
       /\ thread[t].at = "queued" => Kind(t) \in Readers
       /\ thread[t].at = "cancelled" => Kind(t) = "shutdown"
       /\ thread[t].at = "announced" => gate = t
       /\ Inside(t) /\ gate # t =>
            Kind(t) \in Readers /\ (thread[t].running => ~stopped)
       /\ gate = t => thread[t].at \in {"announced", "inside"} /\ Kind(t) \in Writers
       /\ gate = t /\ Inside(t) => \A u \in Threads : Inside(u) => u = t

\* The steps left to the writer inside the gate.
Todo == IF gate \in Threads /\ Inside(gate) THEN thread[gate].work ELSE << >>

Listed(s, work) == \E i \in DOMAIN work : work[i] = s
Later(s, work, i) == \E j \in DOMAIN work : i < j /\ work[j] = s

\* The order of a shutdown: the flag, then every manager cancelled, each joined after
\* that, the snapshot invalidated after the joins, the store closed last.
Ordered(work) ==
  \A i \in DOMAIN work :
    /\ work[i][1] # "start"
    /\ work[i][1] = "stopped" => \A m \in Managers : Later(<<"cancel", m>>, work, i)
    /\ work[i][1] = "cancel" => Later(<<"join", work[i][2]>>, work, i)
    /\ work[i][1] = "join" => Later(<<"invalidate", "plugin">>, work, i)
    /\ work[i][1] = "invalidate" => Later(<<"close", "plugin">>, work, i)

\* Whatever a stopped plugin still has is dealt with by a step its shutdown has left.
StopInv ==
  /\ scene \in Scene
  /\ live \subseteq Managers /\ workers \subseteq Goroutine
  /\ \A w \in workers : w.at = "reads" => w.manager \in Publishers
  /\ refresh["loop"].at # "idle" => \E w \in workers : w.manager = "precompute" /\ w.at # "waits"
  /\ stopped \/ (\E m \in Managers \union {"plugin"} : Listed(<<"stopped", m>>, Todo)) => Ordered(Todo)
  /\ stopped =>
       /\ \A m \in live : Listed(<<"cancel", m>>, Todo)
       /\ \A w \in workers : Listed(<<"join", w.manager>>, Todo)
       /\ refresh["async"].at # "idle" => Listed(<<"join", "precompute">>, Todo)
       /\ snapshot => Listed(<<"invalidate", "plugin">>, Todo)
       /\ store => Listed(<<"close", "plugin">>, Todo)

-----------------------------------------------------------------------------
(* Lists of steps.                                                          *)

LEMMA StillListed ==
  ASSUME NEW work \in Seq(Step), work # << >>, NEW s, Listed(s, work), s # Head(work)
  PROVE  Listed(s, Tail(work))
  <1>1. PICK i \in DOMAIN work : work[i] = s
    BY DEF Listed
  <1>2. /\ i \in 1..Len(work) /\ i # 1 /\ Len(work) \in Nat
        /\ Tail(work) \in Seq(Step) /\ Len(Tail(work)) = Len(work) - 1
        /\ \A j \in 1..Len(Tail(work)) : Tail(work)[j] = work[j + 1]
    BY <1>1, HeadTailProperties
  <1>3. i - 1 \in DOMAIN Tail(work) /\ Tail(work)[i - 1] = s
    BY <1>1, <1>2
  <1> QED
    BY <1>3 DEF Listed

LEMMA LaterInTail ==
  ASSUME NEW work \in Seq(Step), work # << >>, NEW s, NEW i \in DOMAIN Tail(work),
         Later(s, work, i + 1)
  PROVE  Later(s, Tail(work), i)
  <1>1. PICK j \in DOMAIN work : i + 1 < j /\ work[j] = s
    BY DEF Later
  <1>2. /\ j \in 1..Len(work) /\ Len(work) \in Nat /\ i \in 1..Len(Tail(work))
        /\ Tail(work) \in Seq(Step) /\ Len(Tail(work)) = Len(work) - 1
        /\ \A k \in 1..Len(Tail(work)) : Tail(work)[k] = work[k + 1]
    BY <1>1, HeadTailProperties
  <1>3. j - 1 \in DOMAIN Tail(work) /\ i < j - 1 /\ Tail(work)[j - 1] = s
    BY <1>1, <1>2
  <1> QED
    BY <1>3 DEF Later

LEMMA TailIsOrdered ==
  ASSUME NEW work \in Seq(Step), work # << >>, Ordered(work)
  PROVE  Ordered(Tail(work)) /\ Tail(work) \in Seq(Step)
  <1>1. Tail(work) \in Seq(Step)
    BY HeadTailProperties
  <1>2. \A i \in DOMAIN Tail(work) : i + 1 \in DOMAIN work /\ Tail(work)[i] = work[i + 1]
    BY HeadTailProperties
  <1> QED
    BY <1>1, <1>2, LaterInTail DEF Ordered

\* What is listed in an order has its successors listed.
LEMMA OrderedIsListed ==
  ASSUME NEW work \in Seq(Step), Ordered(work)
  PROVE  /\ \A m : Listed(<<"cancel", m>>, work) => Listed(<<"join", m>>, work)
         /\ \A m : Listed(<<"join", m>>, work) => Listed(<<"invalidate", "plugin">>, work)
         /\ Listed(<<"invalidate", "plugin">>, work) => Listed(<<"close", "plugin">>, work)
         /\ \A m : ~Listed(<<"start", m>>, work)
  BY DEF Ordered, Later, Listed

LEMMA ConcatLists ==
  ASSUME NEW a \in Seq(Step), NEW b \in Seq(Step), NEW s
  PROVE  Listed(s, a \o b) <=> Listed(s, a) \/ Listed(s, b)
  <1>1. /\ a \o b \in Seq(Step) /\ Len(a \o b) = Len(a) + Len(b)
        /\ Len(a) \in Nat /\ Len(b) \in Nat
        /\ DOMAIN a = 1..Len(a) /\ DOMAIN b = 1..Len(b) /\ DOMAIN (a \o b) = 1..(Len(a) + Len(b))
        /\ \A i \in 1..(Len(a) + Len(b)) :
             (a \o b)[i] = IF i <= Len(a) THEN a[i] ELSE b[i - Len(a)]
    BY ConcatProperties
  <1>2. ASSUME Listed(s, a \o b) PROVE Listed(s, a) \/ Listed(s, b)
    <2>1. PICK i \in 1..(Len(a) + Len(b)) : (a \o b)[i] = s
      BY <1>1, <1>2 DEF Listed
    <2>2. CASE i <= Len(a)
      BY <1>1, <2>1, <2>2 DEF Listed
    <2>3. CASE ~(i <= Len(a))
      <3>1. i - Len(a) \in DOMAIN b /\ b[i - Len(a)] = s
        BY <1>1, <2>1, <2>3
      <3> QED
        BY <3>1 DEF Listed
    <2> QED
      BY <2>2, <2>3
  <1>3. ASSUME Listed(s, a) PROVE Listed(s, a \o b)
    BY <1>1, <1>3 DEF Listed
  <1>4. ASSUME Listed(s, b) PROVE Listed(s, a \o b)
    <2>1. PICK i \in DOMAIN b : b[i] = s
      BY <1>4 DEF Listed
    <2>2. i + Len(a) \in DOMAIN (a \o b) /\ (a \o b)[i + Len(a)] = s
      BY <1>1, <2>1
    <2> QED
      BY <2>2 DEF Listed
  <1> QED
    BY <1>2, <1>3, <1>4

LEMMA ConcatAt ==
  ASSUME NEW a \in Seq(Step), NEW b \in Seq(Step)
  PROVE  /\ a \o b \in Seq(Step) /\ Len(a \o b) = Len(a) + Len(b)
         /\ \A i \in 1..Len(a) : (a \o b)[i] = a[i]
         /\ \A i \in 1..Len(b) : (a \o b)[i + Len(a)] = b[i]
  OBVIOUS

\* A list of stops: cancellations, each with its join after it.
Stopping(work) ==
  /\ work \in Seq(Step)
  /\ \A i \in DOMAIN work :
       /\ work[i][1] \in {"cancel", "join"}
       /\ work[i][1] = "cancel" => Later(<<"join", work[i][2]>>, work, i)

LEMMA StopIsStopping ==
  ASSUME NEW m \in Managers
  PROVE  Stopping(Stop(m)) /\ Listed(<<"cancel", m>>, Stop(m))
  <1>1. <<"cancel", m>> \in Step /\ <<"join", m>> \in Step
    BY DEF Step, Op
  <1>2. /\ Stop(m) \in Seq(Step) /\ DOMAIN Stop(m) = {1, 2}
        /\ Stop(m)[1] = <<"cancel", m>> /\ Stop(m)[2] = <<"join", m>>
    BY <1>1 DEF Stop
  <1>3. \A i \in DOMAIN Stop(m) :
          /\ Stop(m)[i][1] \in {"cancel", "join"}
          /\ Stop(m)[i][1] = "cancel" => i = 1 /\ Stop(m)[i][2] = m
    BY <1>2
  <1>4. Later(<<"join", m>>, Stop(m), 1)
    BY <1>2 DEF Later
  <1> HIDE DEF Stop
  <1> QED
    BY <1>2, <1>3, <1>4 DEF Stopping, Listed

LEMMA ConcatIsStopping ==
  ASSUME NEW a, NEW b, Stopping(a), Stopping(b)
  PROVE  Stopping(a \o b)
  <1>1. a \in Seq(Step) /\ b \in Seq(Step)
    BY DEF Stopping
  <1>2. /\ a \o b \in Seq(Step) /\ Len(a \o b) = Len(a) + Len(b)
        /\ Len(a) \in Nat /\ Len(b) \in Nat
        /\ DOMAIN a = 1..Len(a) /\ DOMAIN b = 1..Len(b) /\ DOMAIN (a \o b) = 1..(Len(a) + Len(b))
        /\ \A i \in 1..(Len(a) + Len(b)) :
             (a \o b)[i] = IF i <= Len(a) THEN a[i] ELSE b[i - Len(a)]
    BY <1>1, ConcatProperties
  <1>3. ASSUME NEW i \in DOMAIN (a \o b)
        PROVE  /\ (a \o b)[i][1] \in {"cancel", "join"}
               /\ (a \o b)[i][1] = "cancel" => Later(<<"join", (a \o b)[i][2]>>, a \o b, i)
    <2>1. CASE i <= Len(a)
      <3>1. i \in DOMAIN a /\ (a \o b)[i] = a[i]
        BY <1>2, <1>3, <2>1
      <3>2. \A s : Later(s, a, i) => Later(s, a \o b, i)
        BY <1>2 DEF Later
      <3> QED
        BY <3>1, <3>2 DEF Stopping
    <2>2. CASE ~(i <= Len(a))
      <3>1. i - Len(a) \in DOMAIN b /\ (a \o b)[i] = b[i - Len(a)]
        BY <1>2, <1>3, <2>2
      <3>2. \A s : Later(s, b, i - Len(a)) => Later(s, a \o b, i)
        <4> TAKE s
        <4>1. HAVE Later(s, b, i - Len(a))
        <4>2. PICK j \in DOMAIN b : i - Len(a) < j /\ b[j] = s
          BY <4>1 DEF Later
        <4>3. j + Len(a) \in DOMAIN (a \o b) /\ i < j + Len(a) /\ (a \o b)[j + Len(a)] = s
          BY <1>2, <1>3, <4>2
        <4> QED
          BY <4>3 DEF Later
      <3> QED
        BY <3>1, <3>2 DEF Stopping
    <2> QED
      BY <2>1, <2>2
  <1> QED
    BY <1>2, <1>3 DEF Stopping

\* A shutdown's list of stops names every manager.
LEMMA StopsOfAll ==
  /\ Stopping(Stop("refresher") \o Managed(Stop))
  /\ \A m \in Managers : Listed(<<"cancel", m>>, Stop("refresher") \o Managed(Stop))
  <1>1. \A m \in Managers : Stopping(Stop(m)) /\ Listed(<<"cancel", m>>, Stop(m))
    BY StopIsStopping
  <1>2. \A a, b : Stopping(a) /\ Stopping(b) =>
          /\ Stopping(a \o b)
          /\ \A s : Listed(s, a) \/ Listed(s, b) => Listed(s, a \o b)
    BY ConcatIsStopping, ConcatLists DEF Stopping
  <1> DEFINE L1 == Stop("protection") \o Stop("quota")
             L2 == L1 \o Stop("prices")
             L3 == L2 \o Stop("retention")
             L4 == L3 \o Stop("health")
             L5 == L4 \o Stop("maintenance")
             L6 == L5 \o Stop("precompute")
             L7 == Stop("refresher") \o L6
  <1>3. L7 = Stop("refresher") \o Managed(Stop)
    BY DEF Managed
  <1>4. Stopping(L1) /\ \A m \in {"protection", "quota"} : Listed(<<"cancel", m>>, L1)
    BY <1>1, <1>2 DEF Managers
  <1> HIDE DEF L1
  <1>5. Stopping(L2) /\ \A m \in {"protection", "quota", "prices"} : Listed(<<"cancel", m>>, L2)
    BY <1>1, <1>2, <1>4 DEF Managers
  <1> HIDE DEF L2
  <1>6. /\ Stopping(L3)
        /\ \A m \in {"protection", "quota", "prices", "retention"} : Listed(<<"cancel", m>>, L3)
    BY <1>1, <1>2, <1>5 DEF Managers
  <1> HIDE DEF L3
  <1>7. /\ Stopping(L4)
        /\ \A m \in {"protection", "quota", "prices", "retention", "health"} :
             Listed(<<"cancel", m>>, L4)
    BY <1>1, <1>2, <1>6 DEF Managers
  <1> HIDE DEF L4
  <1>8. /\ Stopping(L5)
        /\ \A m \in {"protection", "quota", "prices", "retention", "health", "maintenance"} :
             Listed(<<"cancel", m>>, L5)
    BY <1>1, <1>2, <1>7 DEF Managers
  <1> HIDE DEF L5
  <1>9. Stopping(L6) /\ \A m \in Managers \ {"refresher"} : Listed(<<"cancel", m>>, L6)
    BY <1>1, <1>2, <1>8 DEF Managers
  <1> HIDE DEF L6
  <1>10. Stopping(L7) /\ \A m \in Managers : Listed(<<"cancel", m>>, L7)
    BY <1>1, <1>2, <1>9 DEF Managers
  <1> HIDE DEF L7
  <1> QED
    BY <1>3, <1>10

LEMMA ShutdownIsOrdered == ShutdownWork \in Seq(Step) /\ Ordered(ShutdownWork)
  <1> DEFINE stops == Stop("refresher") \o Managed(Stop)
             first == << <<"stopped", "plugin">> >>
             last == << <<"close", "plugin">> >>
             n == Len(stops)
  <1>1. Stopping(stops) /\ \A m \in Managers : Listed(<<"cancel", m>>, stops)
    BY StopsOfAll
  <1>2. /\ first \in Seq(Step) /\ Len(first) = 1 /\ first[1] = <<"stopped", "plugin">>
        /\ Invalidation \in Seq(Step) /\ Len(Invalidation) = 1
        /\ Invalidation[1] = <<"invalidate", "plugin">>
        /\ last \in Seq(Step) /\ Len(last) = 1 /\ last[1] = <<"close", "plugin">>
    BY DEF Step, Op, Invalidation
  <1>3. Stop("refresher") \in Seq(Step) /\ Managed(Stop) \in Seq(Step)
    <2>1. \A m \in Managers : Stop(m) \in Seq(Step)
      BY StopIsStopping DEF Stopping
    <2>2. \A a, b \in Seq(Step) : a \o b \in Seq(Step)
      BY ConcatProperties
    <2> QED
      BY <2>1, <2>2 DEF Managed, Managers
  <1>4. ShutdownWork = ((first \o stops) \o Invalidation) \o last
    <2> DEFINE one == Stop("refresher")
               all == Managed(Stop)
    <2>1. /\ ShutdownWork = (((first \o one) \o all) \o Invalidation) \o last
          /\ stops = one \o all
      BY DEF ShutdownWork
    <2>2. first \in Seq(Step) /\ one \in Seq(Step) /\ all \in Seq(Step)
      BY <1>2, <1>3
    <2> HIDE DEF one, all, first, last, stops
    <2>3. (first \o one) \o all = first \o (one \o all)
      BY <2>2, ConcatAssociative
    <2> QED
      BY <2>1, <2>3
  <1> DEFINE w == ((first \o stops) \o Invalidation) \o last
  <1> HIDE DEF stops, first, last
  <1>5. stops \in Seq(Step) /\ n \in Nat /\ DOMAIN stops = 1..n
    <2>1. stops \in Seq(Step)
      BY <1>1 DEF Stopping
    <2> QED
      BY <2>1, LenProperties
  <1>6. /\ w \in Seq(Step) /\ DOMAIN w = 1..(n + 3)
        /\ w[1] = <<"stopped", "plugin">>
        /\ \A i \in 1..n : w[i + 1] = stops[i]
        /\ w[n + 2] = <<"invalidate", "plugin">> /\ w[n + 3] = <<"close", "plugin">>
    <2> DEFINE u == first \o stops
               v == u \o Invalidation
    <2>1. /\ u \in Seq(Step) /\ Len(u) = n + 1 /\ u[1] = <<"stopped", "plugin">>
          /\ \A i \in 1..n : u[i + 1] = stops[i]
      <3>1. first \in Seq(Step) /\ stops \in Seq(Step)
        BY <1>2, <1>5
      <3>2. /\ u \in Seq(Step) /\ Len(u) = Len(first) + Len(stops)
            /\ \A i \in 1..Len(first) : u[i] = first[i]
            /\ \A i \in 1..Len(stops) : u[i + Len(first)] = stops[i]
        BY <3>1, ConcatAt
      <3> HIDE DEF u
      <3> QED
        BY <1>2, <1>5, <3>2
    <2> HIDE DEF u
    <2>2. /\ v \in Seq(Step) /\ Len(v) = n + 2 /\ \A i \in 1..(n + 1) : v[i] = u[i]
          /\ v[n + 2] = <<"invalidate", "plugin">>
      BY <1>2, <1>5, <2>1, ConcatProperties
    <2> HIDE DEF v
    <2>3. /\ v \o last \in Seq(Step) /\ Len(v \o last) = n + 3
          /\ \A i \in 1..(n + 2) : (v \o last)[i] = v[i]
          /\ (v \o last)[n + 3] = <<"close", "plugin">>
      BY <1>2, <1>5, <2>2, ConcatProperties
    <2>4. w = v \o last
      BY DEF u, v
    <2> HIDE DEF w
    <2> QED
      BY <1>5, <2>1, <2>2, <2>3, <2>4
  <1> HIDE DEF w, n
  <1>7. ASSUME NEW i \in 1..n, NEW s, Later(s, stops, i)
        PROVE  Later(s, w, i + 1)
    <2>1. PICK j \in 1..n : i < j /\ stops[j] = s
      BY <1>5, <1>7 DEF Later
    <2>2. j + 1 \in DOMAIN w /\ i + 1 < j + 1 /\ w[j + 1] = s
      BY <1>5, <1>6, <2>1
    <2> QED
      BY <2>2 DEF Later
  <1>8. ASSUME NEW m \in Managers PROVE Later(<<"cancel", m>>, w, 1)
    <2>1. PICK j \in 1..n : stops[j] = <<"cancel", m>>
      BY <1>1, <1>5 DEF Listed
    <2>2. j + 1 \in DOMAIN w /\ 1 < j + 1 /\ w[j + 1] = <<"cancel", m>>
      BY <1>5, <1>6, <2>1
    <2> QED
      BY <2>2 DEF Later
  <1>9. \A i \in 1..(n + 1) : Later(<<"invalidate", "plugin">>, w, i)
    BY <1>5, <1>6 DEF Later
  <1>10. Later(<<"close", "plugin">>, w, n + 2)
    BY <1>5, <1>6 DEF Later
  <1>11. Ordered(w)
    <2> SUFFICES ASSUME NEW i \in DOMAIN w
                 PROVE  /\ w[i][1] # "start"
                        /\ w[i][1] = "stopped" => \A m \in Managers : Later(<<"cancel", m>>, w, i)
                        /\ w[i][1] = "cancel" => Later(<<"join", w[i][2]>>, w, i)
                        /\ w[i][1] = "join" => Later(<<"invalidate", "plugin">>, w, i)
                        /\ w[i][1] = "invalidate" => Later(<<"close", "plugin">>, w, i)
      BY DEF Ordered
    <2>1. CASE i = 1
      BY <1>6, <1>8, <2>1
    <2>2. CASE i \in 2..(n + 1)
      <3>1. i - 1 \in 1..n /\ i = (i - 1) + 1 /\ w[i] = stops[i - 1]
        BY <1>5, <1>6, <2>2
      <3>2. /\ stops[i - 1][1] \in {"cancel", "join"}
            /\ stops[i - 1][1] = "cancel" => Later(<<"join", stops[i - 1][2]>>, stops, i - 1)
        BY <1>1, <1>5, <3>1 DEF Stopping
      <3>3. w[i][1] = "cancel" => Later(<<"join", w[i][2]>>, w, i)
        BY <1>7, <3>1, <3>2
      <3>4. w[i][1] = "join" => Later(<<"invalidate", "plugin">>, w, i)
        BY <1>5, <1>9, <2>2
      <3> QED
        BY <3>1, <3>2, <3>3, <3>4
    <2>3. CASE i = n + 2
      BY <1>6, <1>10, <2>3
    <2>4. CASE i = n + 3
      BY <1>6, <2>4
    <2> QED
      BY <1>5, <1>6, <2>1, <2>2, <2>3, <2>4
  <1> QED
    BY <1>4, <1>6, <1>11 DEF w

\* The work of a configuration or of init sets no flag.
LEMMA OthersSetNoFlag ==
  /\ Work["configure"] \in Seq(Step) /\ Work["init"] \in Seq(Step)
  /\ \A m : ~Listed(<<"stopped", m>>, Work["configure"]) /\ ~Listed(<<"stopped", m>>, Work["init"])
  /\ Ordered(Work["init"])
  <1> DEFINE NoFlag(work) == work \in Seq(Step) /\ \A m : ~Listed(<<"stopped", m>>, work)
  <1>1. \A a, b : NoFlag(a) /\ NoFlag(b) => NoFlag(a \o b)
    BY ConcatLists, ConcatProperties
  <1>2. \A m \in Managers : NoFlag(Stop(m))
    <2> TAKE m \in Managers
    <2>1. Stopping(Stop(m))
      BY StopIsStopping
    <2>2. \A p : <<"stopped", p>>[1] \notin {"cancel", "join"}
      OBVIOUS
    <2> QED
      BY <2>1, <2>2 DEF Stopping, Listed
  <1>3. \A m \in Managers : NoFlag(<< <<"start", m>> >>)
    BY DEF Listed, Step, Op
  <1>4. NoFlag(Invalidation)
    BY DEF Invalidation, Listed, Step, Op
  <1>5. NoFlag(<< <<"init", "plugin">> >>) /\ Ordered(<< <<"init", "plugin">> >>)
    BY DEF Listed, Step, Op, Ordered
  <1>6. Work["init"] = << <<"init", "plugin">> >> /\ Work["configure"] = ConfigureWork
    BY DEF Work
  <1> HIDE DEF NoFlag
  <1>7. \A m \in Managers : NoFlag(Restart(m))
    BY <1>1, <1>2, <1>3 DEF Restart
  <1>8. NoFlag(Managed(Restart))
    BY <1>1, <1>7 DEF Managed, Managers
  <1>9. NoFlag(ConfigureWork)
    <2>1. NoFlag(Stop("refresher")) /\ NoFlag(<< <<"start", "refresher">> >>)
      BY <1>2, <1>3 DEF Managers
    <2> QED
      BY <1>1, <1>4, <1>8, <2>1 DEF ConfigureWork
  <1> QED
    BY <1>5, <1>6, <1>9 DEF NoFlag

-----------------------------------------------------------------------------
(* The gate.                                                                *)

LEMMA WorkIsTyped == \A k \in Writers : Work[k] \in Seq(Step)
  <1>1. Work["shutdown"] = ShutdownWork
    BY DEF Work
  <1> QED
    BY <1>1, ShutdownIsOrdered, OthersSetNoFlag DEF Writers

LEMMA NoCallIsACall ==
  ASSUME NEW calls \in Seq(Writers \union Readers)
  PROVE  /\ NoCall(calls) \in Call /\ NoCall(calls).at = "idle"
         /\ NoCall(calls).calls = calls /\ NoCall(calls).work = << >>
  BY DEF NoCall, Call

LEMMA GateInvInit == Init => GateInv
  <1> SUFFICES ASSUME Init PROVE GateInv
    OBVIOUS
  <1>1. scene \in Scene /\ \A t \in Threads : scene.calls[t] \in Seq(Writers \union Readers)
    BY ScenesAssumption DEF Init, Scene
  <1>2. \A t \in Threads : thread[t] \in Call /\ thread[t].at = "idle"
    BY <1>1, NoCallIsACall DEF Init
  <1>3. thread \in [Threads -> Call]
    BY <1>2 DEF Init
  <1> QED
    BY <1>2, <1>3, ThreadsAssumption DEF Init, GateInv, Inside

LEMMA GateKept ==
  ASSUME GateInv, UNCHANGED <<thread, gate, operations, stopped>>
  PROVE  GateInv'
  BY DEF GateInv, Calling, Kind, Inside

\* A thread that moves without taking or leaving the gate.
LEMMA GateMoves ==
  ASSUME GateInv, NEW t \in Threads, NEW q \in Call, thread' = [thread EXCEPT ![t] = q],
         gate' = gate, operations' \in [context : Nat, cancelled : BOOLEAN],
         stopped' = stopped \/ (stopped' \in BOOLEAN /\ gate = t /\ Inside(t)),
         q.at # "idle" => q.calls # << >>,
         q.at = "queued" => Head(q.calls) \in Readers,
         q.at = "cancelled" => Head(q.calls) = "shutdown",
         q.at = "announced" => gate = t,
         q.at = "inside" /\ gate # t =>
           gate = None /\ Head(q.calls) \in Readers /\ (q.running => ~stopped),
         gate = t => q.at \in {"announced", "inside"} /\ Head(q.calls) \in Writers,
         gate = t /\ q.at = "inside" => \A u \in Threads : Inside(u) => u = t
  PROVE  GateInv'
  <1> USE DEF GateInv, Calling, Kind, Inside
  <1>1. thread' \in [Threads -> Call] /\ thread'[t] = q
        /\ \A u \in Threads : u # t => thread'[u] = thread[u]
    OBVIOUS
  <1>2. thread' \in [Threads -> Call] /\ gate' \in Threads \union {None}
        /\ operations' \in [context : Nat, cancelled : BOOLEAN] /\ stopped' \in BOOLEAN
    BY <1>1
  <1>3. ASSUME NEW u \in Threads
        PROVE  /\ thread'[u].at # "idle" => thread'[u].calls # << >>
               /\ thread'[u].at = "queued" => Head(thread'[u].calls) \in Readers
               /\ thread'[u].at = "cancelled" => Head(thread'[u].calls) = "shutdown"
               /\ thread'[u].at = "announced" => gate' = u
               /\ thread'[u].at = "inside" /\ gate' # u =>
                    Head(thread'[u].calls) \in Readers /\ (thread'[u].running => ~stopped')
               /\ gate' = u =>
                    thread'[u].at \in {"announced", "inside"} /\ Head(thread'[u].calls) \in Writers
    <2>1. CASE u = t
      BY <1>1, <2>1
    <2>2. CASE u # t
      BY <1>1, <2>2
    <2> QED
      BY <2>1, <2>2
  <1>4. ASSUME NEW u \in Threads, gate' = u, thread'[u].at = "inside",
               NEW v \in Threads, thread'[v].at = "inside"
        PROVE  v = u
    <2>1. CASE u = t
      BY <1>1, <1>4, <2>1
    <2>2. CASE u # t /\ v # t
      BY <1>1, <1>4, <2>2
    <2>3. CASE u # t /\ v = t
      BY <1>1, <1>4, <2>3, ThreadsAssumption
    <2> QED
      BY <2>1, <2>2, <2>3
  <1> QED
    BY <1>2, <1>3, <1>4

\* The next step of a writer's work.
LEMMA WorkProceeds ==
  ASSUME GateInv, NEW t \in Threads, NEW op, Does(t, op), Done(t), gate' = gate,
         operations' \in [context : Nat, cancelled : BOOLEAN], stopped' \in BOOLEAN
  PROVE  GateInv'
  <1> DEFINE q == [thread[t] EXCEPT !.work = Tail(@)]
  <1>1. /\ thread \in [Threads -> Call] /\ thread[t] \in Call /\ gate = t /\ Inside(t)
        /\ thread[t].work # << >> /\ thread[t].work \in Seq(Step)
    BY DEF GateInv, Does, Call
  <1>2. Tail(thread[t].work) \in Seq(Step)
    BY <1>1, HeadTailProperties
  <1>3. q \in Call /\ q.at = thread[t].at /\ q.calls = thread[t].calls /\ q.running = thread[t].running
    BY <1>1, <1>2 DEF Call
  <1>4. thread' = [thread EXCEPT ![t] = q]
    BY <1>1 DEF Done, Call
  <1> HIDE DEF q
  <1>5. Kind(t) \in Writers /\ Calling(t) /\ \A u \in Threads : Inside(u) => u = t
    BY <1>1 DEF GateInv, Inside
  <1> QED
    BY <1>1, <1>3, <1>4, <1>5, GateMoves DEF Kind, Calling, Inside

\* A call of a reader returns.
LEMMA ReturnKeepsGate ==
  ASSUME GateInv, NEW t \in Threads, Calling(t), gate # t, Return(t),
         UNCHANGED <<gate, operations, stopped>>
  PROVE  GateInv'
  <1>1. thread[t].calls \in Seq(Writers \union Readers) /\ thread[t].calls # << >>
    BY DEF GateInv, Call, Calling
  <1>2. Tail(thread[t].calls) \in Seq(Writers \union Readers)
    BY <1>1, HeadTailProperties
  <1>3. Returned(t) \in Call /\ Returned(t).at = "idle"
    BY <1>2, NoCallIsACall DEF Returned
  <1>4. operations' \in [context : Nat, cancelled : BOOLEAN]
    BY DEF GateInv
  <1> QED
    BY <1>3, <1>4, GateMoves DEF Return

LEMMA EnteredIsInside ==
  ASSUME GateInv, NEW t \in Threads
  PROVE  /\ Entered(t) \in Call /\ Entered(t).at = "inside" /\ Entered(t).calls = thread[t].calls
         /\ Entered(t).running = ~stopped /\ Entered(t).work = thread[t].work
  BY DEF GateInv, Call, Entered

LEMMA ArrivalKeepsGate ==
  ASSUME GateInv, NEW t \in Threads,
         ReaderArrives(t) \/ CancelOperations(t) \/ WriterAnnounces(t) \/ WriterEnters(t)
  PROVE  GateInv'
  <1>1. /\ thread \in [Threads -> Call] /\ thread[t] \in Call
        /\ operations \in [context : Nat, cancelled : BOOLEAN] /\ stopped \in BOOLEAN
        /\ thread[t].at \notin {"announced", "inside"} => gate # t
    BY DEF GateInv
  <1> DEFINE placed(at) == [thread[t] EXCEPT !.at = at]
  <1>2. \A at \in {"queued", "cancelled", "announced"} :
          placed(at) \in Call /\ placed(at).at = at /\ placed(at).calls = thread[t].calls
    BY <1>1 DEF Call
  <1>3. CASE ReaderArrives(t)
    <2>1. \/ gate = None /\ thread' = [thread EXCEPT ![t] = Entered(t)]
          \/ gate # None /\ thread' = [thread EXCEPT ![t] = placed("queued")]
      BY <1>1, <1>3 DEF ReaderArrives
    <2>2. /\ UNCHANGED <<gate, operations, stopped>>
          /\ Head(thread[t].calls) \in Readers /\ thread[t].calls # << >> /\ gate # t
      BY <1>1, <1>3 DEF ReaderArrives, Calling, Kind, lifecycleVars
    <2> HIDE DEF placed
    <2> QED
      BY <1>1, <1>2, <2>1, <2>2, EnteredIsInside, GateMoves
  <1>4. CASE CancelOperations(t)
    <2>1. /\ thread' = [thread EXCEPT ![t] = placed("cancelled")]
          /\ UNCHANGED <<gate, stopped>> /\ operations' \in [context : Nat, cancelled : BOOLEAN]
      BY <1>1, <1>4 DEF CancelOperations
    <2>2. Head(thread[t].calls) = "shutdown" /\ thread[t].calls # << >> /\ gate # t
      BY <1>1, <1>4 DEF CancelOperations, Calling, Kind
    <2> HIDE DEF placed
    <2> QED
      BY <1>1, <1>2, <2>1, <2>2, GateMoves
  <1>5. CASE WriterAnnounces(t)
    <2>1. /\ thread' = [thread EXCEPT ![t] = placed("announced")]
          /\ gate = None /\ gate' = t /\ UNCHANGED <<operations, stopped>>
          /\ Kind(t) \in Writers /\ Calling(t)
      BY <1>1, <1>5 DEF WriterAnnounces, lifecycleVars
    <2> HIDE DEF placed
    <2>2. /\ thread' \in [Threads -> Call] /\ thread'[t] = placed("announced")
          /\ \A u \in Threads : u # t => thread'[u] = thread[u]
      BY <1>1, <1>2, <2>1
    <2>3. \A u \in Threads : gate # u
      BY <2>1, ThreadsAssumption
    <2> QED
      BY <1>1, <1>2, <2>1, <2>2, <2>3 DEF GateInv, Calling, Kind, Inside
  <1>6. CASE WriterEnters(t)
    <2>1. gate = t /\ Kind(t) \in Writers /\ Calling(t)
      BY <1>6 DEF WriterEnters, GateInv
    <2>2. \A u \in Threads : Inside(u) => u = t
      BY <1>6, <2>1 DEF WriterEnters, ReadersInside
    <2> DEFINE work == IF Kind(t) = "configure" /\ stopped THEN << >> ELSE Work[Kind(t)]
               q == [Entered(t) EXCEPT !.work = work]
    <2>3. work \in Seq(Step)
      BY <2>1, WorkIsTyped
    <2>4. thread' = [thread EXCEPT ![t] = q] /\ UNCHANGED <<gate, operations, stopped>>
      BY <1>6 DEF WriterEnters, lifecycleVars
    <2> HIDE DEF work
    <2>5. q \in Call /\ q.at = "inside" /\ q.calls = thread[t].calls
      BY <2>3, EnteredIsInside DEF Call
    <2> HIDE DEF q
    <2> QED
      BY <1>1, <2>1, <2>2, <2>4, <2>5, GateMoves DEF Calling, Kind
  <1> QED
    BY <1>3, <1>4, <1>5, <1>6

LEMMA LeavingKeepsGate ==
  ASSUME GateInv, NEW t \in Threads, WriterLeaves(t)
  PROVE  GateInv'
  <1>1. /\ gate = t /\ Inside(t) /\ gate' = None /\ UNCHANGED <<operations, stopped>>
        /\ thread' = [u \in Threads |-> CASE u = t -> Returned(t)
                                          [] thread[u].at = "queued" -> Entered(u)
                                          [] OTHER -> thread[u]]
    BY DEF WriterLeaves, lifecycleVars
  <1>2. Returned(t) \in Call /\ Returned(t).at = "idle"
    <2>1. thread[t].calls \in Seq(Writers \union Readers) /\ thread[t].calls # << >>
      BY <1>1 DEF GateInv, Call, Calling, Inside
    <2>2. Tail(thread[t].calls) \in Seq(Writers \union Readers)
      BY <2>1, HeadTailProperties
    <2> QED
      BY <2>2, NoCallIsACall DEF Returned
  <1>3. ASSUME NEW u \in Threads
        PROVE  /\ thread'[u] \in Call /\ thread'[u].at # "announced"
               /\ thread'[u].at # "idle" => thread'[u].calls # << >>
               /\ thread'[u].at = "queued" => Head(thread'[u].calls) \in Readers
               /\ thread'[u].at = "cancelled" => Head(thread'[u].calls) = "shutdown"
               /\ thread'[u].at = "inside" =>
                    Head(thread'[u].calls) \in Readers /\ (thread'[u].running => ~stopped)
    <2>1. CASE u = t
      <3>1. thread'[u] = Returned(t)
        BY <1>1, <2>1 DEF Inside
      <3> QED
        BY <1>2, <3>1
    <2>2. CASE u # t /\ thread[u].at = "queued"
      <3>1. thread'[u] = Entered(u)
        BY <1>1, <2>2
      <3>2. thread[u].calls # << >> /\ Head(thread[u].calls) \in Readers
        BY <2>2 DEF GateInv, Calling, Kind
      <3> QED
        BY <3>1, <3>2, EnteredIsInside
    <2>3. CASE u # t /\ thread[u].at # "queued"
      <3>1. thread'[u] = thread[u]
        BY <1>1, <2>3
      <3>2. thread[u].at # "announced" /\ thread[u].at # "inside"
        BY <1>1, <2>3 DEF GateInv, Inside
      <3> QED
        BY <2>3, <3>1, <3>2 DEF GateInv, Calling, Kind
    <2> QED
      BY <2>1, <2>2, <2>3
  <1>4. thread' \in [Threads -> Call]
    BY <1>1, <1>3
  <1>5. operations' \in [context : Nat, cancelled : BOOLEAN] /\ stopped' \in BOOLEAN
    BY <1>1 DEF GateInv
  <1> QED
    BY <1>1, <1>3, <1>4, <1>5, ThreadsAssumption DEF GateInv, Calling, Kind, Inside

\* A reader that is inside does not hold the gate, and one that runs is not stopped.
LEMMA ReadersHoldNoGate ==
  ASSUME GateInv, NEW t \in Threads, Inside(t), Kind(t) \in Readers
  PROVE  gate # t /\ Calling(t) /\ (thread[t].running => ~stopped)
  BY DEF GateInv, Inside, Readers, Writers

LEMMA WriterStepKeepsGate ==
  ASSUME GateInv, NEW t \in Threads, WriterStep(t)
  PROVE  GateInv'
  <1>1. CASE CancelOperations(t) \/ WriterAnnounces(t) \/ WriterEnters(t)
    BY <1>1, ArrivalKeepsGate
  <1>2. CASE WriterLeaves(t)
    BY <1>2, LeavingKeepsGate
  <1>3. operations \in [context : Nat, cancelled : BOOLEAN] /\ stopped \in BOOLEAN
    BY DEF GateInv
  <1>4. CASE Initialise(t)
    <2>1. operations' \in [context : Nat, cancelled : BOOLEAN] /\ stopped' \in BOOLEAN
      <3>1. operations.context + 1 \in Nat
        BY <1>3
      <3>2. /\ operations' = [context |-> operations.context + 1, cancelled |-> FALSE]
            /\ stopped' = FALSE
        BY <1>4 DEF Initialise
      <3> QED
        BY <3>1, <3>2
    <2>2. Does(t, "init") /\ Done(t) /\ gate' = gate
      BY <1>4 DEF Initialise
    <2> QED
      BY <2>1, <2>2, WorkProceeds
  <1>5. CASE MarkStopped(t)
    BY <1>3, <1>5, WorkProceeds DEF MarkStopped
  <1>6. CASE Cancel(t) \/ Start(t) \/ Invalidate(t) \/ CloseStore(t) \/ Join(t)
    BY <1>3, <1>6, WorkProceeds DEF Cancel, Start, Invalidate, CloseStore, Join, lifecycleVars
  <1> QED
    BY <1>1, <1>2, <1>4, <1>5, <1>6 DEF WriterStep

LEMMA GateInvStep == GateInv /\ [Next]_vars => GateInv'
  <1> SUFFICES ASSUME GateInv, [Next]_vars PROVE GateInv'
    OBVIOUS
  <1>1. CASE UNCHANGED vars
    BY <1>1, GateKept DEF vars
  <1>2. ASSUME NEW t \in Threads, ReaderStep(t) PROVE GateInv'
    <2>1. CASE ReaderArrives(t)
      BY <2>1, ArrivalKeepsGate
    <2>2. CASE Return(t) /\ Inside(t) /\ Kind(t) \in Readers /\ UNCHANGED <<gate, operations, stopped>>
      BY <2>2, ReadersHoldNoGate, ReturnKeepsGate
    <2>3. CASE UNCHANGED <<thread, gate, operations, stopped>>
      BY <2>3, GateKept
    <2>4. \/ ReaderArrives(t)
          \/ Return(t) /\ Inside(t) /\ Kind(t) \in Readers /\ UNCHANGED <<gate, operations, stopped>>
          \/ UNCHANGED <<thread, gate, operations, stopped>>
      BY <1>2 DEF ReaderStep, Pick, RecordUsage, Manage, Summarise, RememberRequest, Refused,
                  Runs, Readers
    <2> QED
      BY <2>1, <2>2, <2>3, <2>4
  <1>3. ASSUME NEW w \in workers, WorkerStep(w) PROVE GateInv'
    <2>1. UNCHANGED <<thread, gate, operations, stopped>>
      BY <1>3 DEF WorkerStep, WorkerWakes, WorkerOpensStore, WorkerReadsState, WorkerPublishes,
                  WorkerUpdates, WorkerEndsRound, WorkerExits, workerVars
    <2> QED
      BY <2>1, GateKept
  <1>4. ASSUME NEW r \in Refreshes, RefreshRuns(r) \/ RefreshEnds(r) PROVE GateInv'
    BY <1>4, GateKept DEF RefreshRuns, RefreshEnds, workerVars
  <1>5. ASSUME NEW k \in tasks, TaskStep(k) PROVE GateInv'
    BY <1>5, GateKept DEF TaskStep, TaskLoads, TaskPublishes, TaskGivesUp, FinishTask, taskVars
  <1>6. CASE Tick
    BY <1>6, GateKept DEF Tick, workerVars
  <1> QED
    BY <1>1, <1>2, <1>3, <1>4, <1>5, <1>6, WriterStepKeepsGate DEF Next

-----------------------------------------------------------------------------
(* What a stopped plugin leaves behind.                                     *)

LEMMA StopInvInit == Init => StopInv
  <1> SUFFICES ASSUME Init PROVE StopInv
    OBVIOUS
  <1>1. Todo = << >>
    BY ThreadsAssumption DEF Init, Todo
  <1>2. Ordered(Todo)
    BY <1>1 DEF Ordered
  <1>3. refresh["loop"].at = "idle" /\ refresh["async"].at = "idle"
    BY DEF Init, CacheInit, Refreshes, Idle
  <1> QED
    BY <1>2, <1>3, ScenesAssumption DEF Init, StopInv

LEMMA TodoKept ==
  ASSUME gate' = gate, gate \in Threads => thread'[gate] = thread[gate]
  PROVE  Todo' = Todo
  BY DEF Todo, Inside

\* What is there belongs to a manager the shutdown has not yet dealt with.
LEMMA NothingForgotten ==
  ASSUME StopInv, Todo \in Seq(Step), Todo' = Todo, UNCHANGED <<scene, stopped, live>>,
         workers' \subseteq Goroutine,
         \A w \in workers' : w.at = "reads" => w.manager \in Publishers,
         refresh'["loop"].at # "idle" =>
           \E w \in workers' : w.manager = "precompute" /\ w.at # "waits",
         stopped =>
           /\ \A w \in workers' : w.manager \in live \/ \E v \in workers : v.manager = w.manager
           /\ refresh'["async"].at # "idle" => refresh["async"].at # "idle"
           /\ snapshot' => snapshot \/ workers # {}
           /\ store' => store \/ workers # {} \/ live # {}
  PROVE  StopInv'
  <1>1. CASE ~stopped
    BY <1>1 DEF StopInv
  <1>2. CASE stopped
    <2>1. Ordered(Todo)
      BY <1>2 DEF StopInv
    <2>2. \A m \in live : Listed(<<"cancel", m>>, Todo) /\ Listed(<<"join", m>>, Todo)
      BY <1>2, <2>1, OrderedIsListed DEF StopInv
    <2>3. \A w \in workers' : Listed(<<"join", w.manager>>, Todo)
      BY <1>2, <2>2 DEF StopInv
    <2>4. workers # {} \/ live # {} =>
            Listed(<<"invalidate", "plugin">>, Todo) /\ Listed(<<"close", "plugin">>, Todo)
      BY <1>2, <2>1, <2>2, OrderedIsListed DEF StopInv
    <2> QED
      BY <1>2, <2>1, <2>2, <2>3, <2>4 DEF StopInv
  <1> QED
    BY <1>1, <1>2 DEF StopInv

LEMMA TodoIsTyped ==
  ASSUME GateInv
  PROVE  Todo \in Seq(Step)
  BY DEF GateInv, Todo, Call

\* A step that only moves a call outside the gate, or an entry of the summary cache.
LEMMA StopKept ==
  ASSUME StopInv, GateInv, Todo' = Todo, UNCHANGED <<scene, stopped, live, workers, snapshot, store>>,
         \A r \in Refreshes : refresh'[r].at # "idle" => refresh[r].at # "idle"
  PROVE  StopInv'
  <1>1. refresh'["loop"].at # "idle" => refresh["loop"].at # "idle"
    BY DEF Refreshes
  <1>2. refresh'["async"].at # "idle" => refresh["async"].at # "idle"
    BY DEF Refreshes
  <1> QED
    BY <1>1, <1>2, TodoIsTyped, NothingForgotten DEF StopInv

\* A writer does the first of its steps and has the rest left.
LEMMA Doing ==
  ASSUME GateInv, NEW t \in Threads, NEW op, Does(t, op), Done(t), gate' = gate
  PROVE  /\ Todo \in Seq(Step) /\ Todo # << >> /\ Todo' = Tail(Todo)
         /\ Head(Todo) = <<op, On(t)>> /\ On(t) \in Managers \union {"plugin"}
         /\ 1 \in DOMAIN Todo /\ Todo[1] = <<op, On(t)>>
  <1>1. /\ gate = t /\ Inside(t) /\ thread[t].work # << >> /\ thread[t] \in Call
        /\ thread \in [Threads -> Call] /\ thread[t].work \in Seq(Step)
        /\ Head(thread[t].work)[1] = op
    BY DEF Does, GateInv, Call
  <1>2. Todo = thread[t].work
    BY <1>1 DEF Todo
  <1>3. thread'[t].work = Tail(thread[t].work) /\ thread'[t].at = "inside"
    BY <1>1 DEF Done, Inside, Call
  <1>4. Todo' = Tail(Todo)
    BY <1>1, <1>2, <1>3 DEF Todo, Inside
  <1>5. Head(thread[t].work) \in Step
    BY <1>1, HeadTailProperties
  <1>6. \A s \in Step : s = <<s[1], s[2]>> /\ s[2] \in Managers \union {"plugin"}
    BY DEF Step
  <1>7. Head(Todo) = <<op, On(t)>> /\ On(t) \in Managers \union {"plugin"}
    BY <1>1, <1>2, <1>5, <1>6 DEF On
  <1>8. 1 \in DOMAIN Todo /\ Todo[1] = Head(Todo)
    BY <1>1, <1>2
  <1> QED
    BY <1>1, <1>2, <1>4, <1>7, <1>8

\* What is left of an order is one.
LEMMA OrderProceeds ==
  ASSUME StopInv, Todo \in Seq(Step), Todo # << >>, Todo' = Tail(Todo),
         stopped' => stopped \/ Head(Todo)[1] = "stopped",
         Head(Todo) \in Step
  PROVE  stopped' \/ (\E m \in Managers \union {"plugin"} : Listed(<<"stopped", m>>, Todo'))
           => Ordered(Todo')
  <1>1. \A s : Listed(s, Tail(Todo)) => Listed(s, Todo)
    <2>1. \A i \in DOMAIN Tail(Todo) : i + 1 \in DOMAIN Todo /\ Tail(Todo)[i] = Todo[i + 1]
      BY HeadTailProperties
    <2> QED
      BY <2>1 DEF Listed
  <1>2. Head(Todo)[1] = "stopped" =>
          \E m \in Managers \union {"plugin"} : Listed(<<"stopped", m>>, Todo)
    <2>1. Head(Todo) = <<Head(Todo)[1], Head(Todo)[2]>> /\ Head(Todo)[2] \in Managers \union {"plugin"}
      BY DEF Step
    <2>2. Listed(Head(Todo), Todo)
      BY DEF Listed
    <2> QED
      BY <2>1, <2>2
  <1> QED
    BY <1>1, <1>2, TailIsOrdered DEF StopInv

LEMMA MarkKeepsStop ==
  ASSUME StopInv, GateInv, NEW t \in Threads, MarkStopped(t)
  PROVE  StopInv'
  <1>1. /\ Does(t, "stopped") /\ Done(t) /\ stopped' = TRUE
        /\ UNCHANGED <<scene, gate, live, workers, snapshot, store, refresh>>
    BY DEF MarkStopped, cacheVars
  <1>2. /\ Todo \in Seq(Step) /\ Todo # << >> /\ Todo' = Tail(Todo)
        /\ Head(Todo) = <<"stopped", On(t)>> /\ On(t) \in Managers \union {"plugin"}
        /\ 1 \in DOMAIN Todo /\ Todo[1] = <<"stopped", On(t)>>
    BY <1>1, Doing
  <1>3. Ordered(Todo) /\ Ordered(Todo') /\ Todo' \in Seq(Step)
    <2>1. Listed(<<"stopped", On(t)>>, Todo)
      BY <1>2 DEF Listed
    <2>2. Ordered(Todo)
      BY <1>2, <2>1 DEF StopInv
    <2> QED
      BY <1>2, <2>2, TailIsOrdered
  <1>4. \A m \in Managers : Listed(<<"cancel", m>>, Todo')
    <2> TAKE m \in Managers
    <2>1. Later(<<"cancel", m>>, Todo, 1)
      <3>1. Todo[1][1] = "stopped"
        BY <1>2
      <3> QED
        BY <1>2, <1>3, <3>1 DEF Ordered
    <2>2. Listed(<<"cancel", m>>, Todo)
      BY <2>1 DEF Later, Listed
    <2>3. <<"cancel", m>> # <<"stopped", On(t)>>
      OBVIOUS
    <2> QED
      BY <1>2, <2>2, <2>3, StillListed
  <1>5. \A m \in Managers : Listed(<<"join", m>>, Todo')
    BY <1>3, <1>4, OrderedIsListed
  <1>6. /\ Listed(<<"join", "precompute">>, Todo') /\ Listed(<<"invalidate", "plugin">>, Todo')
        /\ Listed(<<"close", "plugin">>, Todo')
    BY <1>3, <1>5, OrderedIsListed DEF Managers
  <1>7. \A w \in workers : w.manager \in Managers
    BY DEF StopInv, Goroutine
  <1> QED
    BY <1>1, <1>3, <1>4, <1>5, <1>6, <1>7 DEF StopInv

LEMMA InitialiseKeepsStop ==
  ASSUME StopInv, GateInv, NEW t \in Threads, Initialise(t)
  PROVE  StopInv'
  <1>1. /\ Does(t, "init") /\ Done(t) /\ stopped' = FALSE
        /\ UNCHANGED <<scene, gate, live, workers, snapshot, store, refresh>>
    BY DEF Initialise, cacheVars
  <1>2. /\ Todo \in Seq(Step) /\ Todo # << >> /\ Todo' = Tail(Todo) /\ Head(Todo) \in Step
    BY <1>1, Doing, HeadTailProperties
  <1> QED
    BY <1>1, <1>2, OrderProceeds DEF StopInv

LEMMA CancelKeepsStop ==
  ASSUME StopInv, GateInv, NEW t \in Threads, Cancel(t)
  PROVE  StopInv'
  <1>1. /\ Does(t, "cancel") /\ Done(t) /\ live' = live \ {On(t)}
        /\ UNCHANGED <<scene, gate, stopped, workers, snapshot, store, refresh>>
    BY DEF Cancel, cacheVars
  <1>2. /\ Todo \in Seq(Step) /\ Todo # << >> /\ Todo' = Tail(Todo)
        /\ Head(Todo) = <<"cancel", On(t)>> /\ Head(Todo) \in Step
    BY <1>1, Doing, HeadTailProperties
  <1>3. \A s : Listed(s, Todo) /\ s # <<"cancel", On(t)>> => Listed(s, Todo')
    BY <1>2, StillListed
  <1>4. \A m : <<"join", m>> # <<"cancel", On(t)>>
        /\ (m # On(t) => <<"cancel", m>> # <<"cancel", On(t)>>)
        /\ <<"invalidate", "plugin">> # <<"cancel", On(t)>>
        /\ <<"close", "plugin">> # <<"cancel", On(t)>>
    OBVIOUS
  <1>5. stopped => /\ \A m \in live' : Listed(<<"cancel", m>>, Todo')
                   /\ \A w \in workers : Listed(<<"join", w.manager>>, Todo')
                   /\ refresh["async"].at # "idle" => Listed(<<"join", "precompute">>, Todo')
                   /\ snapshot => Listed(<<"invalidate", "plugin">>, Todo')
                   /\ store => Listed(<<"close", "plugin">>, Todo')
    BY <1>1, <1>3, <1>4 DEF StopInv
  <1> QED
    BY <1>1, <1>2, <1>5, OrderProceeds DEF StopInv

LEMMA JoinKeepsStop ==
  ASSUME StopInv, GateInv, NEW t \in Threads, Join(t)
  PROVE  StopInv'
  <1>1. /\ Does(t, "join") /\ Done(t) /\ \A w \in workers : w.manager # On(t)
        /\ On(t) = "precompute" => refresh["async"].at = "idle"
        /\ UNCHANGED <<scene, gate, stopped, live, workers, snapshot, store, refresh>>
    BY DEF Join, lifecycleVars, cacheVars
  <1>2. /\ Todo \in Seq(Step) /\ Todo # << >> /\ Todo' = Tail(Todo)
        /\ Head(Todo) = <<"join", On(t)>> /\ Head(Todo) \in Step
    BY <1>1, Doing, HeadTailProperties
  <1>3. \A s : Listed(s, Todo) /\ s # <<"join", On(t)>> => Listed(s, Todo')
    BY <1>2, StillListed
  <1>4. \A m : <<"cancel", m>> # <<"join", On(t)>>
        /\ (m # On(t) => <<"join", m>> # <<"join", On(t)>>)
        /\ <<"invalidate", "plugin">> # <<"join", On(t)>>
        /\ <<"close", "plugin">> # <<"join", On(t)>>
    OBVIOUS
  <1>5. stopped => /\ \A m \in live : Listed(<<"cancel", m>>, Todo')
                   /\ \A w \in workers : Listed(<<"join", w.manager>>, Todo')
                   /\ refresh["async"].at # "idle" => Listed(<<"join", "precompute">>, Todo')
                   /\ snapshot => Listed(<<"invalidate", "plugin">>, Todo')
                   /\ store => Listed(<<"close", "plugin">>, Todo')
    BY <1>1, <1>3, <1>4 DEF StopInv
  <1> QED
    BY <1>1, <1>2, <1>5, OrderProceeds DEF StopInv

LEMMA CloseKeepsStop ==
  ASSUME StopInv, GateInv, NEW t \in Threads, CloseStore(t)
  PROVE  StopInv'
  <1>1. /\ Does(t, "close") /\ Done(t) /\ store' = FALSE
        /\ UNCHANGED <<scene, gate, stopped, live, workers, snapshot, refresh>>
    BY DEF CloseStore, cacheVars
  <1>2. /\ Todo \in Seq(Step) /\ Todo # << >> /\ Todo' = Tail(Todo)
        /\ Head(Todo) = <<"close", On(t)>> /\ Head(Todo) \in Step
    BY <1>1, Doing, HeadTailProperties
  <1>3. \A s : Listed(s, Todo) /\ s # <<"close", On(t)>> => Listed(s, Todo')
    BY <1>2, StillListed
  <1>4. \A m : /\ <<"cancel", m>> # <<"close", On(t)>> /\ <<"join", m>> # <<"close", On(t)>>
               /\ <<"invalidate", "plugin">> # <<"close", On(t)>>
    OBVIOUS
  <1>5. stopped => /\ \A m \in live : Listed(<<"cancel", m>>, Todo')
                   /\ \A w \in workers : Listed(<<"join", w.manager>>, Todo')
                   /\ refresh["async"].at # "idle" => Listed(<<"join", "precompute">>, Todo')
                   /\ snapshot => Listed(<<"invalidate", "plugin">>, Todo')
    BY <1>3, <1>4 DEF StopInv
  <1> QED
    BY <1>1, <1>2, <1>5, OrderProceeds DEF StopInv

\* An invalidation overtakes the refreshes that have begun to read.
LEMMA InvalidateKeepsStop ==
  ASSUME StopInv, GateInv, NEW t \in Threads, Invalidate(t)
  PROVE  StopInv'
  <1> DEFINE overtaken(w) == IF w.at = "reads" THEN [w EXCEPT !.at = "overtaken"] ELSE w
  <1>1. /\ Does(t, "invalidate") /\ Done(t) /\ snapshot' = FALSE
        /\ workers' = {overtaken(w) : w \in workers}
        /\ UNCHANGED <<scene, gate, stopped, live, store, refresh>>
    BY DEF Invalidate, cacheVars
  <1>2. /\ Todo \in Seq(Step) /\ Todo # << >> /\ Todo' = Tail(Todo)
        /\ Head(Todo) = <<"invalidate", On(t)>> /\ Head(Todo) \in Step
    BY <1>1, Doing, HeadTailProperties
  <1>3. \A s : Listed(s, Todo) /\ s # <<"invalidate", On(t)>> => Listed(s, Todo')
    BY <1>2, StillListed
  <1>4. \A m : /\ <<"cancel", m>> # <<"invalidate", On(t)>>
               /\ <<"join", m>> # <<"invalidate", On(t)>>
               /\ <<"close", "plugin">> # <<"invalidate", On(t)>>
    OBVIOUS
  <1>5. \A w \in workers : /\ overtaken(w) \in Goroutine /\ overtaken(w).manager = w.manager
                           /\ overtaken(w).at # "reads"
                           /\ overtaken(w).at = "waits" <=> w.at = "waits"
    BY DEF StopInv, Goroutine
  <1> HIDE DEF overtaken
  <1>6. /\ workers' \subseteq Goroutine /\ \A w \in workers' : w.at # "reads"
        /\ \A w \in workers' : \E v \in workers : w.manager = v.manager
    BY <1>1, <1>5
  <1>7. refresh["loop"].at # "idle" => \E w \in workers' : w.manager = "precompute" /\ w.at # "waits"
    <2> HAVE refresh["loop"].at # "idle"
    <2>1. PICK w \in workers : w.manager = "precompute" /\ w.at # "waits"
      BY DEF StopInv
    <2>2. overtaken(w) \in workers'
      BY <1>1
    <2> QED
      BY <1>5, <2>1, <2>2
  <1>8. stopped => /\ \A m \in live : Listed(<<"cancel", m>>, Todo')
                   /\ \A w \in workers' : Listed(<<"join", w.manager>>, Todo')
                   /\ refresh["async"].at # "idle" => Listed(<<"join", "precompute">>, Todo')
                   /\ store => Listed(<<"close", "plugin">>, Todo')
    BY <1>3, <1>4, <1>6 DEF StopInv
  <1> QED
    BY <1>1, <1>2, <1>6, <1>7, <1>8, OrderProceeds DEF StopInv

\* Nothing is started by a stopped plugin.
LEMMA StartKeepsStop ==
  ASSUME StopInv, GateInv, NEW t \in Threads, Start(t)
  PROVE  StopInv'
  <1> DEFINE started == {Worker(m, IF m \in {"refresher", "prices"} THEN "runs" ELSE "waits") :
                           m \in ({On(t)} \intersect Enabled) \ {"protection"}}
  <1>1. /\ Does(t, "start") /\ Done(t) /\ live' = live \union ({On(t)} \intersect Enabled)
        /\ workers' = workers \union started
        /\ UNCHANGED <<scene, gate, stopped, store, snapshot, refresh>>
    BY DEF Start, cacheVars
  <1>2. /\ Todo \in Seq(Step) /\ Todo # << >> /\ Todo' = Tail(Todo) /\ Head(Todo) \in Step
        /\ 1 \in DOMAIN Todo /\ Todo[1] = <<"start", On(t)>>
    BY <1>1, Doing, HeadTailProperties
  <1>3. ~stopped
    <2>1. Todo[1][1] = "start"
      BY <1>2
    <2>2. ~Ordered(Todo)
      BY <1>2, <2>1 DEF Ordered
    <2> QED
      BY <2>2 DEF StopInv
  <1>4. Enabled \subseteq Managers
    BY DEF StopInv, Scene, Enabled, Managers, Optional
  <1>5. started \subseteq Goroutine /\ \A w \in started : w.at # "reads"
    BY <1>4 DEF Worker, Goroutine
  <1> HIDE DEF started
  <1>6. /\ live' \subseteq Managers /\ workers' \subseteq Goroutine
        /\ \A w \in workers' : w.at = "reads" => w.manager \in Publishers
        /\ refresh["loop"].at # "idle" =>
             \E w \in workers' : w.manager = "precompute" /\ w.at # "waits"
    BY <1>1, <1>4, <1>5 DEF StopInv
  <1> QED
    BY <1>1, <1>2, <1>3, <1>6, OrderProceeds DEF StopInv

\* Without a writer inside the gate, a stopped plugin has nothing.
LEMMA NothingLeft ==
  ASSUME StopInv, stopped, Todo = << >>
  PROVE  /\ live = {} /\ workers = {} /\ ~snapshot /\ ~store
         /\ refresh["async"].at = "idle" /\ refresh["loop"].at = "idle"
  <1>1. \A s : ~Listed(s, << >>)
    BY DEF Listed
  <1> QED
    BY <1>1 DEF StopInv

LEMMA EnteringKeepsStop ==
  ASSUME StopInv, GateInv, NEW t \in Threads, WriterEnters(t)
  PROVE  StopInv'
  <1> DEFINE work == IF Kind(t) = "configure" /\ stopped THEN << >> ELSE Work[Kind(t)]
  <1>1. /\ gate = t /\ ~Inside(t) /\ Kind(t) \in Writers /\ thread \in [Threads -> Call]
    BY DEF WriterEnters, GateInv, Inside
  <1>2. /\ thread' = [thread EXCEPT ![t] = [Entered(t) EXCEPT !.work = work]]
        /\ UNCHANGED <<scene, gate, stopped, live, workers, snapshot, store, refresh>>
    BY DEF WriterEnters, lifecycleVars, cacheVars
  <1>3. Todo = << >>
    BY <1>1 DEF Todo
  <1>4. Todo' = work
    <2> HIDE DEF work
    <2> DEFINE q == [Entered(t) EXCEPT !.work = work]
    <2>1. q.at = "inside" /\ q.work = work
      BY EnteredIsInside DEF Call
    <2> HIDE DEF q
    <2>2. thread'[t] = q
      BY <1>1, <1>2 DEF q
    <2> QED
      BY <1>1, <1>2, <2>1, <2>2 DEF Todo, Inside
  <1>5. stopped \/ (\E m \in Managers \union {"plugin"} : Listed(<<"stopped", m>>, work))
          => Ordered(work)
    <2>1. CASE Kind(t) = "shutdown"
      BY <2>1, ShutdownIsOrdered DEF Work
    <2>2. CASE Kind(t) = "init"
      BY <2>2, OthersSetNoFlag
    <2>3. CASE Kind(t) = "configure" /\ stopped
      <3>1. work = << >>
        BY <2>3
      <3> QED
        BY <3>1 DEF Ordered
    <2>4. CASE Kind(t) = "configure" /\ ~stopped
      <3>1. work = Work["configure"]
        BY <2>4
      <3> HIDE DEF work
      <3> QED
        BY <2>4, <3>1, OthersSetNoFlag
    <2> QED
      BY <1>1, <2>1, <2>2, <2>3, <2>4 DEF Writers
  <1>6. stopped => /\ live = {} /\ workers = {} /\ ~snapshot /\ ~store
                   /\ refresh["async"].at = "idle" /\ refresh["loop"].at = "idle"
    BY <1>3, NothingLeft
  <1> HIDE DEF work
  <1> QED
    BY <1>2, <1>4, <1>5, <1>6 DEF StopInv

LEMMA LeavingKeepsStop ==
  ASSUME StopInv, GateInv, NEW t \in Threads, WriterLeaves(t)
  PROVE  StopInv'
  <1>1. /\ gate = t /\ Inside(t) /\ thread[t].work = << >> /\ gate' = None
        /\ UNCHANGED <<scene, stopped, live, workers, snapshot, store, refresh>>
    BY DEF WriterLeaves, lifecycleVars, cacheVars
  <1>2. Todo = << >> /\ Todo' = << >>
    BY <1>1, ThreadsAssumption DEF Todo
  <1> QED
    BY <1>1, <1>2, StopKept

LEMMA WriterStepKeepsStop ==
  ASSUME StopInv, GateInv, NEW t \in Threads, WriterStep(t)
  PROVE  StopInv'
  <1>1. CASE CancelOperations(t)
    <2>1. /\ thread[t].at = "idle" /\ thread' = [thread EXCEPT ![t].at = "cancelled"]
          /\ UNCHANGED <<scene, gate, stopped, live, workers, snapshot, store, refresh>>
      BY <1>1 DEF CancelOperations, cacheVars
    <2>2. gate # t /\ thread \in [Threads -> Call]
      BY <2>1 DEF GateInv
    <2>3. Todo' = Todo
      BY <2>1, <2>2, TodoKept
    <2> QED
      BY <2>1, <2>3, StopKept
  <1>2. CASE WriterAnnounces(t)
    <2>1. /\ thread' = [thread EXCEPT ![t].at = "announced"] /\ gate = None /\ gate' = t
          /\ UNCHANGED <<scene, stopped, live, workers, snapshot, store, refresh>>
      BY <1>2 DEF WriterAnnounces, lifecycleVars, cacheVars
    <2>2. thread'[t].at = "announced"
      BY <2>1 DEF GateInv, Call
    <2>3. Todo' = << >> /\ Todo = << >>
      BY <2>1, <2>2, ThreadsAssumption DEF Todo, Inside
    <2> QED
      BY <2>1, <2>3, StopKept
  <1> QED
    BY <1>1, <1>2, EnteringKeepsStop, LeavingKeepsStop, InitialiseKeepsStop, MarkKeepsStop,
       CancelKeepsStop, JoinKeepsStop, StartKeepsStop, InvalidateKeepsStop, CloseKeepsStop
       DEF WriterStep

\* A reader's call changes nothing of the writer's list.
LEMMA ReturnKeepsTodo ==
  ASSUME GateInv, NEW t \in Threads, gate # t, gate' = gate,
         NEW q, thread' = [thread EXCEPT ![t] = q]
  PROVE  Todo' = Todo
  <1>1. thread \in [Threads -> Call]
    BY DEF GateInv
  <1> QED
    BY <1>1, TodoKept

LEMMA FreshPrices ==
  ASSUME StopInv
  PROVE  /\ workers \subseteq EnsuredFresh /\ EnsuredFresh \subseteq Goroutine
         /\ \A w \in EnsuredFresh : w \in workers \/ (w.at # "reads" /\ w.manager \in live)
  <1> DEFINE update == [manager |-> "prices", task |-> "async", at |-> "updates"]
  <1>1. update \in Goroutine /\ update.at # "reads" /\ update.manager = "prices"
    BY DEF Goroutine, Managers
  <1>2. EnsuredFresh = workers \/ ("prices" \in live /\ EnsuredFresh = workers \union {update})
    BY DEF EnsuredFresh
  <1> HIDE DEF update
  <1> QED
    BY <1>1, <1>2 DEF StopInv

LEMMA ReaderStepKeepsStop ==
  ASSUME StopInv, GateInv, CacheInv, NEW t \in Threads, ReaderStep(t)
  PROVE  StopInv'
  <1>1. CASE ReaderArrives(t)
    <2>1. /\ thread[t].at = "idle"
          /\ UNCHANGED <<scene, gate, stopped, live, workers, snapshot, store, refresh>>
          /\ \E q : thread' = [thread EXCEPT ![t] = q]
      BY <1>1 DEF ReaderArrives, lifecycleVars, cacheVars
    <2>2. gate # t
      BY <2>1 DEF GateInv
    <2>3. Todo' = Todo
      BY <2>1, <2>2, ReturnKeepsTodo
    <2> QED
      BY <2>1, <2>3, StopKept
  \* What runs under the gate runs only while the plugin is not stopped.
  <1>2. CASE Pick(t) \/ RecordUsage(t) \/ Manage(t) \/ Summarise(t)
    <2>1. Inside(t) /\ thread[t].running /\ Kind(t) \in Readers
      BY <1>2 DEF Pick, RecordUsage, Manage, Summarise, Runs, Readers
    <2>2. gate # t /\ ~stopped
      BY <2>1, ReadersHoldNoGate
    <2>3. /\ UNCHANGED <<scene, gate, stopped, live>>
          /\ workers' = workers \/ workers' = EnsuredFresh
          /\ UNCHANGED thread \/ Return(t)
      BY <1>2 DEF Pick, RecordUsage, Manage, Summarise
    <2>4. Todo' = Todo
      BY <2>2, <2>3, ReturnKeepsTodo, TodoKept DEF Return
    <2>5. refresh'["loop"] = refresh["loop"]
      <3>1. refresh' = refresh \/ AnswerFromCache(t, "precompute" \in live)
        <4>1. CASE Pick(t) \/ RecordUsage(t) \/ Manage(t)
          BY <4>1 DEF Pick, RecordUsage, Manage, cacheVars, CommitUsage
        <4>2. CASE Summarise(t)
          <5>1. \/ BeginRequest(t, Kind(t), configured /\ "precompute" \in Enabled)
                \/ RequestRevision(t) \/ MissCache(t) \/ TagSummary(t) \/ ComputeSummary(t)
                \/ AnswerFromCache(t, "precompute" \in live) \/ SaveSummary(t)
            BY <4>2 DEF Summarise
          <5>2. BeginRequest(t, Kind(t), configured /\ "precompute" \in Enabled) => refresh' = refresh
            BY DEF BeginRequest
          <5> QED
            BY <5>1, <5>2 DEF RequestRevision, MissCache, TagSummary, ComputeSummary, SaveSummary
        <4> QED
          BY <1>2, <4>1, <4>2
      <3>2. refresh \in [Refreshes -> Refresh]
        BY DEF CacheInv
      <3>3. \/ refresh' = refresh
            \/ refresh' = [refresh EXCEPT !["async"].at = "queued"]
        BY <3>1 DEF AnswerFromCache
      <3> QED
        BY <3>2, <3>3 DEF Refreshes
    <2>6. /\ workers' \subseteq Goroutine /\ workers \subseteq workers'
          /\ \A w \in workers' : w.at = "reads" => w.manager \in Publishers
      BY <2>3, FreshPrices DEF StopInv
    <2>7. refresh'["loop"].at # "idle" =>
            \E w \in workers' : w.manager = "precompute" /\ w.at # "waits"
      BY <2>5, <2>6 DEF StopInv
    <2> QED
      BY <2>2, <2>3, <2>4, <2>6, <2>7, TodoIsTyped, NothingForgotten
  <1>3. CASE RememberRequest(t)
    <2>1. UNCHANGED <<scene, thread, gate, stopped, live, workers, snapshot, store, refresh>>
      BY <1>3 DEF RememberRequest, RememberSummary
    <2> QED
      BY <2>1, StopKept, TodoKept
  <1>4. CASE Refused(t)
    <2>1. /\ Inside(t) /\ Kind(t) \in Readers /\ Return(t)
          /\ UNCHANGED <<scene, gate, stopped, live, workers, snapshot, store, refresh>>
      BY <1>4 DEF Refused, AbandonRequest, cacheVars
    <2>2. gate # t
      BY <2>1, ReadersHoldNoGate
    <2>3. Todo' = Todo
      BY <2>1, <2>2, ReturnKeepsTodo DEF Return
    <2> QED
      BY <2>1, <2>3, StopKept
  <1> QED
    BY <1>1, <1>2, <1>3, <1>4 DEF ReaderStep

\* A goroutine that moves on stays one of its manager.
LEMMA MovedWorkers ==
  ASSUME StopInv, NEW w \in workers,
         NEW at \in {"waits", "runs", "works", "reads", "overtaken", "updates"}, Moved(w, at),
         at = "reads" => w.manager \in Publishers
  PROVE  /\ workers' \subseteq Goroutine
         /\ \A v \in workers' : v.at = "reads" => v.manager \in Publishers
         /\ \A v \in workers' : \E u \in workers : u.manager = v.manager
         /\ \E v \in workers' : v.manager = w.manager /\ v.at = at
         /\ \A u \in workers : u # w => u \in workers'
  <1> DEFINE q == [w EXCEPT !.at = at]
  <1>1. q \in Goroutine /\ q.manager = w.manager /\ q.at = at
    BY DEF StopInv, Goroutine
  <1>2. workers' = (workers \ {w}) \union {q}
    BY DEF Moved
  <1> HIDE DEF q
  <1> QED
    BY <1>1, <1>2 DEF StopInv

LEMMA WorkerStepKeepsStop ==
  ASSUME StopInv, GateInv, CacheInv, NEW w \in workers, WorkerStep(w)
  PROVE  StopInv'
  <1>1. UNCHANGED <<scene, thread, gate, stopped, live>>
    BY DEF WorkerStep, WorkerWakes, WorkerOpensStore, WorkerReadsState, WorkerPublishes,
           WorkerUpdates, WorkerEndsRound, WorkerExits, workerVars
  <1>2. Todo' = Todo /\ Todo \in Seq(Step)
    BY <1>1, TodoKept, TodoIsTyped
  <1>3. workers # {} /\ refresh \in [Refreshes -> Refresh]
    BY DEF CacheInv
  <1>4. \/ refresh' = refresh
        \/ /\ WorkerWakes(w) /\ w.manager = "precompute" /\ Moved(w, "runs")
           /\ refresh'["async"] = refresh["async"]
    BY <1>3 DEF WorkerStep, WorkerWakes, WorkerOpensStore, WorkerReadsState, WorkerPublishes,
                WorkerUpdates, WorkerEndsRound, WorkerExits, cacheVars, QueueRefresh, Refreshes
  \* A goroutine leaves its round, and the precomputing one has then no refresh.
  <1>5. ASSUME NEW at \in {"waits", "runs", "works", "reads", "overtaken", "updates"}, Moved(w, at),
               at = "reads" => w.manager \in Publishers,
               at = "waits" => w.manager # "precompute" \/ refresh'["loop"].at = "idle"
        PROVE  StopInv'
    <2>1. /\ workers' \subseteq Goroutine
          /\ \A v \in workers' : v.at = "reads" => v.manager \in Publishers
          /\ \A v \in workers' : \E u \in workers : u.manager = v.manager
          /\ \E v \in workers' : v.manager = w.manager /\ v.at = at
          /\ \A u \in workers : u # w => u \in workers'
      BY <1>5, MovedWorkers
    <2>2. refresh'["loop"].at # "idle" =>
            \E v \in workers' : v.manager = "precompute" /\ v.at # "waits"
      <3>1. CASE refresh' = refresh
        BY <1>5, <2>1, <3>1 DEF StopInv
      <3>2. CASE Moved(w, "runs") /\ w.manager = "precompute"
        <4>1. \E v \in workers' : v.manager = w.manager /\ v.at = "runs"
          BY <3>2, MovedWorkers
        <4> QED
          BY <3>2, <4>1
      <3> QED
        BY <1>4, <3>1, <3>2
    <2>3. refresh'["async"] = refresh["async"]
      BY <1>4
    <2> QED
      BY <1>1, <1>2, <1>3, <2>1, <2>2, <2>3, NothingForgotten
  \* A goroutine ends.
  <1>6. ASSUME workers' = workers \ {w}, refresh' = refresh,
               w.manager # "precompute" \/ refresh["loop"].at = "idle"
        PROVE  StopInv'
    <2>1. /\ workers' \subseteq Goroutine
          /\ \A v \in workers' : v.at = "reads" => v.manager \in Publishers
          /\ refresh'["loop"].at # "idle" =>
               \E v \in workers' : v.manager = "precompute" /\ v.at # "waits"
      BY <1>6 DEF StopInv
    <2> QED
      BY <1>1, <1>2, <1>3, <1>6, <2>1, NothingForgotten
  <1>7. CASE WorkerWakes(w)
    BY <1>5, <1>7 DEF WorkerWakes
  <1>8. CASE WorkerOpensStore(w) \/ WorkerReadsState(w) \/ WorkerUpdates(w)
    BY <1>5, <1>8 DEF WorkerOpensStore, WorkerReadsState, WorkerUpdates
  <1>9. CASE WorkerPublishes(w)
    <2>1. w.manager # "precompute"
      BY <1>9 DEF WorkerPublishes, StopInv, Publishers
    <2> QED
      BY <1>5, <1>9, <2>1 DEF WorkerPublishes
  <1>10. CASE WorkerEndsRound(w)
    <2>1. /\ refresh' = refresh
          /\ w.manager = "precompute" => refresh["loop"].at = "idle"
          /\ workers' = workers \ {w} \/ Moved(w, "waits")
      BY <1>10 DEF WorkerEndsRound, cacheVars
    <2>2. CASE workers' = workers \ {w}
      BY <1>6, <2>1, <2>2
    <2>3. CASE Moved(w, "waits")
      BY <1>5, <2>1, <2>3
    <2> QED
      BY <2>1, <2>2, <2>3
  <1>11. CASE WorkerExits(w)
    <2>1. refresh' = refresh /\ w.at = "waits" /\ workers' = workers \ {w}
      BY <1>11 DEF WorkerExits, cacheVars
    <2>2. refresh'["loop"].at # "idle" =>
            \E v \in workers' : v.manager = "precompute" /\ v.at # "waits"
      BY <2>1 DEF StopInv
    <2>3. /\ workers' \subseteq Goroutine
          /\ \A v \in workers' : v.at = "reads" => v.manager \in Publishers
      BY <2>1 DEF StopInv
    <2>4. UNCHANGED <<snapshot, store>>
      BY <1>11 DEF WorkerExits
    <2> QED
      BY <1>1, <1>2, <2>1, <2>2, <2>3, <2>4, NothingForgotten
  <1> QED
    BY <1>7, <1>8, <1>9, <1>10, <1>11 DEF WorkerStep

\* No step of a refresh makes another one begin.
LEMMA RefreshesOnlyEnd ==
  ASSUME CacheInv, NEW r \in Refreshes, NEW legacy,
         \/ BeginRefresh(r, legacy) \/ ComputeRefresh(r) \/ FailRefresh(r) \/ RememberRefresh(r)
         \/ SaveRefresh(r) \/ AbandonRefresh(r)
  PROVE  \A o \in Refreshes : refresh'[o].at # "idle" => refresh[o].at # "idle"
  <1>1. refresh \in [Refreshes -> Refresh]
    BY DEF CacheInv
  <1>2. refresh[r].at # "idle"
    BY DEF BeginRefresh, ComputeRefresh, FailRefresh, RememberRefresh, SaveRefresh, AbandonRefresh
  <1>3. \A o \in Refreshes : o # r => refresh'[o] = refresh[o]
    BY <1>1 DEF BeginRefresh, ComputeRefresh, FailRefresh, RememberRefresh, SaveRefresh,
                AbandonRefresh
  <1> QED
    BY <1>2, <1>3

LEMMA RefreshStepKeepsStop ==
  ASSUME StopInv, GateInv, CacheInv, NEW r \in Refreshes, RefreshRuns(r) \/ RefreshEnds(r)
  PROVE  StopInv'
  <1>1. UNCHANGED <<scene, thread, gate, stopped, live, snapshot>>
    BY DEF RefreshRuns, RefreshEnds, workerVars
  <1>2. Todo' = Todo /\ Todo \in Seq(Step)
    BY <1>1, TodoKept, TodoIsTyped
  <1>3. \A o \in Refreshes : refresh'[o].at # "idle" => refresh[o].at # "idle"
    BY RefreshesOnlyEnd DEF RefreshRuns, RefreshEnds
  <1>4. /\ refresh'["loop"].at # "idle" => refresh["loop"].at # "idle"
        /\ refresh'["async"].at # "idle" => refresh["async"].at # "idle"
    BY <1>3 DEF Refreshes
  <1>5. CASE RefreshRuns(r)
    <2>1. live # {} /\ (workers' = workers \/ workers' = EnsuredFresh)
      BY <1>5 DEF RefreshRuns
    <2>2. /\ workers' \subseteq Goroutine /\ workers \subseteq workers'
          /\ \A w \in workers' : w.at = "reads" => w.manager \in Publishers
          /\ \A w \in workers' : w \in workers \/ w.manager \in live
      BY <2>1, FreshPrices DEF StopInv
    <2>3. refresh'["loop"].at # "idle" =>
            \E w \in workers' : w.manager = "precompute" /\ w.at # "waits"
      BY <1>4, <2>2 DEF StopInv
    <2> QED
      BY <1>1, <1>2, <1>4, <2>1, <2>2, <2>3, NothingForgotten
  <1>6. CASE RefreshEnds(r)
    BY <1>1, <1>2, <1>3, <1>6, StopKept DEF RefreshEnds
  <1> QED
    BY <1>5, <1>6

LEMMA TickKeepsStop ==
  ASSUME StopInv, GateInv, CacheInv, Tick
  PROVE  StopInv'
  <1>1. UNCHANGED <<scene, thread, gate, stopped, live, workers, snapshot, store>>
    BY DEF Tick, workerVars
  <1>2. \A r \in Refreshes : refresh'[r].at = refresh[r].at
    <2>1. refresh' = [r \in Refreshes |-> [refresh[r] EXCEPT !.holds = Older(@)]]
      BY DEF Tick, Age
    <2>2. \A r \in Refreshes : refresh[r] \in Refresh
      BY DEF CacheInv
    <2>3. \A h \in Refresh : [h EXCEPT !.holds = Older(@)].at = h.at
      BY DEF Refresh
    <2> QED
      BY <2>1, <2>2, <2>3
  <1> QED
    BY <1>1, <1>2, StopKept, TodoKept

LEMMA StopInvStep == GateInv /\ CacheInv /\ StopInv /\ [Next]_vars => StopInv'
  <1> SUFFICES ASSUME GateInv, CacheInv, StopInv, [Next]_vars PROVE StopInv'
    OBVIOUS
  <1>1. CASE UNCHANGED vars
    BY <1>1, StopKept, TodoKept DEF vars, cacheVars
  <1>2. ASSUME NEW k \in tasks, TaskStep(k) PROVE StopInv'
    <2>1. UNCHANGED <<scene, thread, gate, stopped, live, workers, snapshot, store, refresh>>
      BY <1>2 DEF TaskStep, TaskLoads, TaskPublishes, TaskGivesUp, FinishTask, taskVars, cacheVars
    <2> QED
      BY <2>1, StopKept, TodoKept
  <1> QED
    BY <1>1, <1>2, WriterStepKeepsStop, ReaderStepKeepsStop, WorkerStepKeepsStop,
       RefreshStepKeepsStop, TickKeepsStop DEF Next

\* However shutdown, configuration, calls and managers overlap, a stopped plugin whose
\* shutdown has left the gate has no manager, no store and no snapshot, for any number
\* of threads and calls (src/plugin_lifecycle.go:55, src/main.go:506).
THEOREM ShutdownLeavesNothing == Spec => []StoppedIsQuiet
  <1>1. GateInv /\ StopInv => StoppedIsQuiet
    <2> SUFFICES ASSUME GateInv, StopInv, stopped, gate = None \/ ~Inside(gate)
                 PROVE  /\ live = {} /\ workers = {}
                        /\ \A r \in Refreshes : refresh[r].at = "idle"
                        /\ ~store /\ ~snapshot
      BY DEF StoppedIsQuiet
    <2>1. Todo = << >>
      BY ThreadsAssumption DEF Todo
    <2> QED
      BY <2>1, NothingLeft DEF Refreshes
  <1> QED
    BY <1>1, Behaviour, CacheInvInit, CacheInvStep, GateInvInit, GateInvStep, StopInvInit,
       StopInvStep, PTL

=============================================================================
