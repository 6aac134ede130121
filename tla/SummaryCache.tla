---------------------------- MODULE SummaryCache ----------------------------
(***************************************************************************)
(* The cache of summaryPrecomputeManager (src/summary.go): one key (window  *)
(* and limit), held in memory and in the table summary_cache.  Requests of  *)
(* the dashboard read it and fill it; the precomputing loop and one         *)
(* asynchronous refresh per key replace it.  The database is reduced to     *)
(* the number of its commits: a summary computed now contains `version'     *)
(* commits, and currentRevision, a statement of its own, names `version'.   *)
(* Ages are counted in ticks; whether precomputation is enabled is a        *)
(* parameter of the operations, since it belongs to the configuration.      *)
(***************************************************************************)
EXTENDS Naturals, Sequences

CONSTANTS Threads,         \* the host's threads, which send the requests
          TTL,             \* summary_cache_max_age_seconds
          Interval,        \* seconds between two refreshes of a key
          MaxVersion,      \* bound: commits of usage
          None

ASSUME CacheAssumption == TTL \in Nat /\ Interval \in Nat /\ MaxVersion \in Nat

VARIABLES version,         \* commits in the database
          entry,           \* m.entries[key]
          saved,           \* the key's row of summary_cache
          active,          \* the key was requested recently: m.active[key]
          request,         \* what each thread's summary request holds
          refresh          \* what the loop and the asynchronous refresh hold

cacheVars == <<version, entry, saved, active, request, refresh>>

Refreshes == {"loop", "async"}
StaleMax == IF TTL > 2 * Interval THEN TTL ELSE 2 * Interval
Entry == [data : 0..MaxVersion, revision : 0..MaxVersion,
          age : 0..(StaleMax + 1), sync : BOOLEAN]

(* The absence of an entry is none of the entries.                          *)
ASSUME NoneAssumption == None \notin Entry

Idle == [at |-> "idle", mode |-> "none", holds |-> None]

Blank == [data |-> 0, revision |-> 0, age |-> 0, sync |-> FALSE]

Hit(e, revision) == e # None /\ e.revision = revision
Usable(e) == e # None /\ e.age <= StaleMax
Stale(e, revision) == e.revision # revision \/ e.age > TTL

CacheInit ==
  /\ version = 0 /\ entry = None /\ saved = None /\ active = FALSE
  /\ request = [t \in Threads |-> Idle]
  /\ refresh = [r \in Refreshes |-> Idle]

-----------------------------------------------------------------------------
(* Requests: "normal" is summary, "fresh" a forced refresh in the           *)
(* background, "sync" a forced refresh the caller waits for, "plain" a      *)
(* summary while precomputation is disabled.                                *)

BeginRequest(t, mode, enabled) ==
  LET path == CASE mode = "normal" /\ ~enabled -> "plain"
                [] mode = "fresh" /\ ~enabled -> "sync"
                [] OTHER -> mode
  IN  /\ request[t].at = "idle"
      /\ active' = TRUE
      /\ request' = [request EXCEPT ![t] =
           [at |-> IF path \in {"plain", "sync"} THEN "compute" ELSE "revision",
            mode |-> path, holds |-> Blank]]
      /\ UNCHANGED <<version, entry, saved, refresh>>

RequestRevision(t) ==
  /\ request[t].at = "revision"
  /\ request' = [request EXCEPT ![t].at = "lookup", ![t].holds.revision = version]
  /\ UNCHANGED <<version, entry, saved, active, refresh>>

(* A lookup takes the entry in memory before the row, and one of the        *)
(* current revision, however old, before a stale one.                       *)
Held == <<entry, saved>>
Offers(t) ==
  LET current == {i \in DOMAIN Held : Hit(Held[i], request[t].holds.revision)}
      usable == {i \in DOMAIN Held : Usable(Held[i])}
  IN  IF request[t].mode = "normal" /\ current # {} THEN current ELSE usable

WantsRefresh(t, found) ==
  \/ request[t].mode = "fresh"
  \/ Stale(found, request[t].holds.revision) /\ found.age >= Interval

AnswerFromCache(t, accepting) ==
  /\ request[t].at = "lookup" /\ Offers(t) # {}
  /\ LET found == Held[CHOOSE i \in Offers(t) : \A j \in Offers(t) : i <= j]
     IN  /\ entry' = found
         /\ refresh' = IF /\ accepting /\ WantsRefresh(t, found)
                          /\ refresh["async"].at = "idle"
                       THEN [refresh EXCEPT !["async"].at = "queued"] ELSE refresh
  /\ request' = [request EXCEPT ![t] = Idle]
  /\ UNCHANGED <<version, saved, active>>

MissCache(t) ==
  /\ request[t].at = "lookup" /\ Offers(t) = {}
  /\ request' = [request EXCEPT ![t].at = "compute",
                                ![t].mode = IF @ = "fresh" THEN "sync" ELSE @]
  /\ UNCHANGED <<version, entry, saved, active, refresh>>

(* summary read the revision before its data; summarySyncWithStarted reads  *)
(* it after them.                                                           *)
ComputeSummary(t) ==
  /\ request[t].at = "compute"
  /\ request' = [request EXCEPT ![t] =
       CASE @.mode = "plain" -> Idle
         [] @.mode = "sync" -> [@ EXCEPT !.at = "tag", !.holds.data = version]
         [] OTHER -> [@ EXCEPT !.at = "remember", !.holds.data = version]]
  /\ UNCHANGED <<version, entry, saved, active, refresh>>

TagSummary(t) ==
  /\ request[t].at = "tag"
  /\ request' = [request EXCEPT ![t].at = "remember", ![t].holds.revision = version,
                                ![t].holds.sync = TRUE]
  /\ UNCHANGED <<version, entry, saved, active, refresh>>

RememberSummary(t) ==
  /\ request[t].at = "remember"
  /\ entry' = request[t].holds
  /\ request' = [request EXCEPT ![t].at = "save"]
  /\ UNCHANGED <<version, saved, active, refresh>>

SaveSummary(t) ==
  /\ request[t].at = "save"
  /\ saved' = request[t].holds
  /\ request' = [request EXCEPT ![t] = Idle]
  /\ UNCHANGED <<version, entry, active, refresh>>

(* The context of the request is cancelled: its next statement fails.  The  *)
(* lookup in memory may still answer, and remembering needs no statement.   *)
AbandonRequest(t) ==
  /\ request[t].at \notin {"idle", "remember"}
  /\ request' = [request EXCEPT ![t] = Idle]
  /\ UNCHANGED <<version, entry, saved, active, refresh>>

-----------------------------------------------------------------------------
(* refresh, by the loop and by refreshAsyncMode, serialised by refreshMu.   *)

QueueRefresh ==
  /\ refresh["loop"].at = "idle"
  /\ refresh' = [refresh EXCEPT !["loop"].at = "queued"]
  /\ UNCHANGED <<version, entry, saved, active, request>>

RefreshMutexFree == \A r \in Refreshes : refresh[r].at \in {"idle", "queued"}

UpToDate(e) == Hit(e, version) /\ e.age <= TTL

BeginRefresh(r, legacy) ==
  /\ refresh[r].at = "queued" /\ RefreshMutexFree
  /\ refresh' = [refresh EXCEPT ![r] =
       IF ~legacy /\ UpToDate(entry) THEN Idle
       ELSE [@ EXCEPT !.at = "compute", !.holds = [Blank EXCEPT !.revision = version]]]
  /\ UNCHANGED <<version, entry, saved, active, request>>

(* Mutant: the revision is read when the entry is built.                    *)
ComputeRefreshTaggedLast(r) ==
  \/ /\ refresh[r].at = "compute"
     /\ refresh' = [refresh EXCEPT ![r].at = "tag", ![r].holds.data = version]
     /\ UNCHANGED <<version, entry, saved, active, request>>
  \/ /\ refresh[r].at = "tag"
     /\ refresh' = [refresh EXCEPT ![r].at = "remember", ![r].holds.revision = version]
     /\ UNCHANGED <<version, entry, saved, active, request>>

ComputeRefresh(r) ==
  /\ refresh[r].at = "compute"
  /\ refresh' = [refresh EXCEPT ![r].at = "remember", ![r].holds.data = version]
  /\ UNCHANGED <<version, entry, saved, active, request>>

(* A summary that failed leaves the previous entry, and saves it again with *)
(* the error.                                                               *)
FailRefresh(r) ==
  /\ refresh[r].at = "compute"
  /\ refresh' = [refresh EXCEPT ![r] =
       IF entry = None THEN Idle ELSE [@ EXCEPT !.at = "save", !.holds = entry]]
  /\ UNCHANGED <<version, entry, saved, active, request>>

RememberRefresh(r) ==
  /\ refresh[r].at = "remember"
  /\ entry' = refresh[r].holds
  /\ refresh' = [refresh EXCEPT ![r].at = "save"]
  /\ UNCHANGED <<version, saved, active, request>>

SaveRefresh(r) ==
  /\ refresh[r].at = "save"
  /\ saved' = refresh[r].holds
  /\ refresh' = [refresh EXCEPT ![r] = Idle]
  /\ UNCHANGED <<version, entry, active, request>>

AbandonRefresh(r) ==
  /\ refresh[r].at \in {"queued", "compute", "save"}
  /\ refresh[r].at = "queued" => RefreshMutexFree
  /\ refresh' = [refresh EXCEPT ![r] = Idle]
  /\ UNCHANGED <<version, entry, saved, active, request>>

-----------------------------------------------------------------------------
CommitUsage ==
  /\ version < MaxVersion
  /\ version' = version + 1
  /\ UNCHANGED <<entry, saved, active, request, refresh>>

Older(e) == IF e = None \/ e.age > StaleMax THEN e ELSE [e EXCEPT !.age = @ + 1]

(* A tick of the clock; it may take the key out of the active ones.         *)
Age ==
  /\ {entry, saved} # {None}
  /\ entry' = Older(entry) /\ saved' = Older(saved)
  /\ active' \in {active, FALSE}
  /\ request' = [t \in Threads |-> [request[t] EXCEPT !.holds = Older(@)]]
  /\ refresh' = [r \in Refreshes |-> [refresh[r] EXCEPT !.holds = Older(@)]]
  /\ UNCHANGED version

-----------------------------------------------------------------------------
(* What the cache names as the revision of an entry is no newer than the    *)
(* entry: a summary that is served as current, however old its entry, lacks *)
(* no commit of the revision it was matched with (src/summary.go:437).  The *)
(* entries of a forced synchronous refresh are excepted, because            *)
(* summarySyncWithStarted reads the revision after the data.                *)
RevisionsAreCovered ==
  \A e \in {entry, saved} \ {None} : e.sync \/ e.data >= e.revision
=============================================================================
