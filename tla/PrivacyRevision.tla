-------------------------- MODULE PrivacyRevision --------------------------
(***************************************************************************)
(* The privacy quarantine of one plugin process.  Markers in store_state   *)
(* quarantine a provider whose legacy API-key identity cannot be proven;   *)
(* triggers count their changes in scheduler_revision_privacy.  A process  *)
(* keeps a snapshot of the markers in memory, the revision it observed,    *)
(* and reloads the snapshot when a pick finds that the revision moved.     *)
(*                                                                         *)
(* The markers are read by one statement, so a snapshot is abstracted to   *)
(* the revision at which it was read.  Revision 0 is the empty quarantine  *)
(* of a new file, which is also what a process without a snapshot assumes. *)
(***************************************************************************)
EXTENDS Integers

CONSTANTS
  Pickers,      \* goroutines that run scheduler.pick
  Openers,      \* other goroutines that open the store: the workers
  Nobody,       \* an unlocked mutex
  MaxAttempts,  \* privacySnapshotMaxAttempts
  MaxRevision   \* bound: committed changes of the markers

Actors == Pickers \cup Openers

ASSUME ConstantsAssumption ==
  /\ Pickers \cap Openers = {} /\ Nobody \notin Actors
  /\ MaxAttempts \in Nat \ {0} /\ MaxRevision \in Nat

VARIABLES
  revision,    \* the committed scheduler_revision_privacy
  ready,       \* s.db is set, and providerRevisions.initialized
  observed,    \* providerRevisions.observed.Privacy
  quarantine,  \* privacyQuarantine.snapshot
  storeMu,     \* who holds store.mu while opening the store
  refreshMu,   \* who holds privacyRefreshMu
  pc,          \* per goroutine: where it is
  rev,         \* per goroutine: the revision it read last
  loaded,      \* per goroutine: the markers it loaded
  attempt,     \* per goroutine: the attempt of stabilizePrivacySnapshot
  view,        \* per pick: the snapshot it filtered its candidates with
  need,        \* history: the revision when the pick began
  found        \* history: picks that found the store open

process == << ready, observed, quarantine >>
locks == << storeMu, refreshMu >>
local == << rev, loaded, attempt >>
pick == << view, need, found >>
vars == << revision, process, locks, pc, local, pick >>

Init ==
  /\ revision = 0
  /\ ready = FALSE
  /\ observed = 0
  /\ quarantine = 0
  /\ storeMu = Nobody
  /\ refreshMu = Nobody
  /\ pc = [x \in Actors |-> "idle"]
  /\ rev = [x \in Actors |-> 0]
  /\ loaded = [x \in Actors |-> 0]
  /\ attempt = [x \in Actors |-> 0]
  /\ view = [p \in Pickers |-> 0]
  /\ need = [p \in Pickers |-> 0]
  /\ found = {}

Goto(x, label) == pc' = [pc EXCEPT ![x] = label]
Opening(x) == storeMu = x

\* The locals of a finished refresh are gone.
Forget(x) ==
  /\ rev' = [rev EXCEPT ![x] = 0]
  /\ loaded' = [loaded EXCEPT ![x] = 0]
  /\ attempt' = [attempt EXCEPT ![x] = 0]

\* A marker is set, changed or deleted, by the opening of the file in this or
\* another process, or by an operator.
CommitMarker ==
  /\ revision < MaxRevision
  /\ revision' = revision + 1
  /\ UNCHANGED << process, locks, pc, local, pick >>

-----------------------------------------------------------------------------
(* A pick                                                                  *)

\* reconcilePersistentSchedulerRevisions waits for an opening under way, and reads
\* the revisions if the store is open.
ReadRevisions(p) ==
  /\ pc[p] = "idle" /\ storeMu = Nobody
  /\ need' = [need EXCEPT ![p] = revision]
  /\ IF ready
       THEN /\ rev' = [rev EXCEPT ![p] = revision]
            /\ found' = found \cup {p}
            /\ Goto(p, "reconcile")
       ELSE /\ UNCHANGED << rev, found >>
            /\ Goto(p, "prepare")
  /\ UNCHANGED << revision, process, locks, loaded, attempt, view >>

\* Mutant: the privacy revision is marked as observed like the provider ones.
ReconcileObserving(p) ==
  /\ pc[p] = "reconcile"
  /\ observed' = rev[p]
  /\ Goto(p, IF rev[p] # observed THEN "lock" ELSE "prepare")
  /\ Forget(p)
  /\ UNCHANGED << revision, ready, quarantine, locks, pick >>

\* reconcileProviders reports whether the privacy revision changed.
Reconcile(p) ==
  /\ pc[p] = "reconcile"
  /\ Goto(p, IF rev[p] # observed THEN "lock" ELSE "prepare")
  /\ Forget(p)
  /\ UNCHANGED << revision, process, locks, pick >>

\* The revision is read again under privacyRefreshMu: another pick may have
\* refreshed the snapshot while this one waited.
Reread(p) ==
  /\ pc[p] = "reread"
  /\ IF revision # observed
       THEN Goto(p, "before") /\ UNCHANGED << refreshMu, attempt >>
       ELSE /\ Goto(p, "prepare")
            /\ refreshMu' = Nobody
            /\ attempt' = [attempt EXCEPT ![p] = 0]
  /\ UNCHANGED << revision, process, storeMu, rev, loaded, pick >>

\* prepareSchedulerRequest drops the candidates of quarantined providers.
Prepare(p) ==
  /\ pc[p] = "prepare"
  /\ view' = [view EXCEPT ![p] = quarantine]
  /\ Goto(p, "prepared")
  /\ UNCHANGED << revision, process, locks, local, need, found >>

\* A candidate is chosen: without the store only the Unknown restrictions of a
\* process are at hand, so the store is open by then.
Choose(p) ==
  /\ pc[p] = "prepared" /\ ready
  /\ Goto(p, "chosen")
  /\ UNCHANGED << revision, process, locks, local, pick >>

Return(x) ==
  /\ Goto(x, "idle")
  /\ Forget(x)
  /\ found' = found \ {x}
  /\ view' = [p \in Pickers |-> IF p = x THEN 0 ELSE view[p]]
  /\ need' = [p \in Pickers |-> IF p = x THEN 0 ELSE need[p]]

\* The answer is returned, or the call failed outside a lock.
EndPick(p) ==
  /\ pc[p] \in {"reconcile", "prepare", "prepared", "chosen"}
  /\ Return(p)
  /\ UNCHANGED << revision, process, locks >>

-----------------------------------------------------------------------------
(* Opening the store, by a worker or by a pick that needs the database     *)

BeginOpen(x) ==
  /\ pc[x] = IF x \in Pickers THEN "prepared" ELSE "idle"
  /\ ~ready /\ storeMu = Nobody
  /\ storeMu' = x
  /\ Goto(x, "lock")
  /\ UNCHANGED << revision, process, refreshMu, local, pick >>

\* Mutant: refreshes are not serialised.
LockRefreshFreely(x) ==
  /\ pc[x] = "lock"
  /\ refreshMu' = x
  /\ Goto(x, IF Opening(x) THEN "before" ELSE "reread")
  /\ attempt' = [attempt EXCEPT ![x] = 1]
  /\ UNCHANGED << revision, process, storeMu, rev, loaded, pick >>

\* privacyRefreshMu.Lock, which has no deadline.
LockRefresh(x) ==
  /\ pc[x] = "lock" /\ refreshMu = Nobody
  /\ refreshMu' = x
  /\ Goto(x, IF Opening(x) THEN "before" ELSE "reread")
  /\ attempt' = [attempt EXCEPT ![x] = 1]
  /\ UNCHANGED << revision, process, storeMu, rev, loaded, pick >>

-----------------------------------------------------------------------------
(* stabilizePrivacySnapshot                                                *)

ReadBefore(x) ==
  /\ pc[x] = "before"
  /\ rev' = [rev EXCEPT ![x] = revision]
  /\ Goto(x, "load")
  /\ UNCHANGED << revision, process, locks, loaded, attempt, pick >>

LoadMarkers(x) ==
  /\ pc[x] = "load"
  /\ loaded' = [loaded EXCEPT ![x] = revision]
  /\ Goto(x, "publish")
  /\ UNCHANGED << revision, process, locks, rev, attempt, pick >>

PublishMarkers(x) ==
  /\ pc[x] = "publish"
  /\ quarantine' = loaded[x]
  /\ Goto(x, "after")
  /\ UNCHANGED << revision, ready, observed, locks, local, pick >>

\* Both locks are released: store.mu only by an opening.
Unlock(x) ==
  /\ refreshMu' = Nobody
  /\ storeMu' = IF Opening(x) THEN Nobody ELSE storeMu

\* The pick goes on with the snapshot; a pick that opened the store with what
\* it had prepared before.
Resume(x) == IF Opening(x) THEN (IF x \in Pickers THEN "prepared" ELSE "idle") ELSE "prepare"

\* Mutant: the last revision read is taken for that of the snapshot.
ReadAfterOnce(x) ==
  /\ pc[x] = "after"
  /\ observed' = revision
  /\ ready' = TRUE
  /\ Unlock(x)
  /\ Goto(x, Resume(x))
  /\ Forget(x)
  /\ UNCHANGED << revision, quarantine, pick >>

\* The snapshot is bound to a revision that did not change while it was read:
\* observePrivacy, or reset in an opening, which also publishes the database.
ReadAfter(x) ==
  /\ pc[x] = "after" /\ revision = rev[x]
  /\ observed' = revision
  /\ ready' = TRUE
  /\ Unlock(x)
  /\ Goto(x, Resume(x))
  /\ Forget(x)
  /\ UNCHANGED << revision, quarantine, pick >>

Retry(x) ==
  /\ pc[x] = "after" /\ revision # rev[x] /\ attempt[x] < MaxAttempts
  /\ attempt' = [attempt EXCEPT ![x] = @ + 1]
  /\ Goto(x, "before")
  /\ UNCHANGED << revision, process, locks, rev, loaded, pick >>

\* Mutant: a failed refresh returns with privacyRefreshMu held.
FailLocked(x) ==
  /\ \/ pc[x] \in {"reread", "before", "load", "after"}
     \/ pc[x] = "lock" /\ Opening(x)
  /\ storeMu' = IF Opening(x) THEN Nobody ELSE storeMu
  /\ UNCHANGED refreshMu
  /\ Return(x)
  /\ UNCHANGED << revision, process >>

\* A query fails, the deadline passes, or the attempts are used up: the call
\* returns the error, and the deferred unlocks run.  In an opening the new handle
\* is closed again; the snapshot stays as it was published.
Fail(x) ==
  /\ \/ pc[x] \in {"reread", "before", "load", "after"}
     \/ pc[x] = "lock" /\ Opening(x)
  /\ storeMu' = IF Opening(x) THEN Nobody ELSE storeMu
  /\ refreshMu' = IF refreshMu = x THEN Nobody ELSE refreshMu
  /\ Return(x)
  /\ UNCHANGED << revision, process >>

\* The process dies or shuts down, and starts again on the same file.
Restart ==
  /\ revision' = revision
  /\ ready' = FALSE /\ observed' = 0 /\ quarantine' = 0
  /\ storeMu' = Nobody /\ refreshMu' = Nobody
  /\ pc' = [x \in Actors |-> "idle"]
  /\ view' = [p \in Pickers |-> 0] /\ need' = [p \in Pickers |-> 0] /\ found' = {}
  /\ rev' = [x \in Actors |-> 0] /\ loaded' = [x \in Actors |-> 0]
  /\ attempt' = [x \in Actors |-> 0]

Refresh(x) ==
  \/ LockRefresh(x) \/ ReadBefore(x) \/ LoadMarkers(x) \/ PublishMarkers(x)
  \/ ReadAfter(x) \/ Retry(x) \/ Fail(x)

Pick(p) == ReadRevisions(p) \/ Reconcile(p) \/ Reread(p) \/ Prepare(p) \/ Choose(p) \/ EndPick(p)

Next ==
  \/ \E p \in Pickers : Pick(p)
  \/ \E x \in Actors : BeginOpen(x) \/ Refresh(x)
  \/ CommitMarker
  \/ Restart

Spec == Init /\ [][Next]_vars

(***************************************************************************)
(* Fairness.  A goroutine runs, and sync.Mutex does not starve a waiter.   *)
(* Whether a pick chooses a candidate or its deadline passes is left open. *)
(***************************************************************************)
Fairness ==
  \A x \in Actors :
    /\ SF_vars(LockRefresh(x))
    /\ WF_vars(ReadBefore(x) \/ LoadMarkers(x) \/ PublishMarkers(x))
    /\ WF_vars(ReadAfter(x) \/ Retry(x) \/ Fail(x))
    /\ x \in Pickers => WF_vars(Reconcile(x) \/ Reread(x) \/ Prepare(x) \/ EndPick(x))

FairSpec == Spec /\ Fairness

-----------------------------------------------------------------------------
(* Properties                                                              *)

Labels == {"idle", "reconcile", "lock", "reread", "before", "load", "publish", "after",
           "prepare", "prepared", "chosen"}

\* The goroutines' locals have the shape of the code; the attempts are bounded.
TypeOK ==
  /\ revision \in 0 .. MaxRevision
  /\ ready \in BOOLEAN
  /\ observed \in 0 .. MaxRevision
  /\ quarantine \in 0 .. MaxRevision
  /\ storeMu \in Actors \cup {Nobody}
  /\ refreshMu \in Actors \cup {Nobody}
  /\ pc \in [Actors -> Labels]
  /\ rev \in [Actors -> 0 .. MaxRevision]
  /\ loaded \in [Actors -> 0 .. MaxRevision]
  /\ attempt \in [Actors -> 0 .. MaxAttempts]
  /\ view \in [Pickers -> 0 .. MaxRevision]
  /\ need \in [Pickers -> 0 .. MaxRevision]
  /\ found \subseteq Pickers

\* A pick that finds the store open filters with every marker committed before it
\* began, whichever of the concurrent picks loaded them.
OpenPicksAreCurrent ==
  \A p \in found : pc[p] \in {"prepared", "chosen"} => view[p] >= need[p]

\* The revision marked as observed is reflected by the snapshot in memory, else no
\* later pick would reload it.
ObservedIsLoaded == ready => quarantine >= observed

\* A slower refresh never replaces the snapshot by an older one.
QuarantineMovesForward == [][ready /\ ready' => quarantine' >= quarantine]_vars

\* The picks that found the store open, and the snapshot they go on with.
Floor(p) == IF p \in found THEN need[p] ELSE -1
Seen(p) == IF p \in found /\ pc[p] \in {"prepared", "chosen"} THEN view[p] ELSE -1

View == INSTANCE CurrentView WITH
          Clients <- Pickers, version <- revision,
          floor <- [p \in Pickers |-> Floor(p)], seen <- [p \in Pickers |-> Seen(p)]

\* Whoever reloads the quarantine, and however often, such a pick is served one
\* current view of the markers and keeps it until it returns.
ImplementsCurrentView == View!Spec

\* Every pick returns, whichever refreshes and openings it waits for, and however
\* those end.
PicksEnd == \A p \in Pickers : pc[p] # "idle" ~> pc[p] = "idle"

\* The change log: another process observes committed quarantine changes before
\* its next pick.
NextPickObserves == \A p \in Pickers : pc[p] = "chosen" => view[p] >= need[p]

=============================================================================
