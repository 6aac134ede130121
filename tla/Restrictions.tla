---------------------------- MODULE Restrictions ----------------------------
(***************************************************************************)
(* The restrictions of one file-backed Codex credential: its row of        *)
(* autoban_bans (429), its row of invalid_auths (401, 402, repeated 403),  *)
(* and the two logs they are derived from, usage_events and                *)
(* quota_trigger_runs.  Both tables are keyed by the credential, so a      *)
(* credential is the whole system; several would only run side by side.    *)
(* Usage callbacks and the quota trigger record and clear restrictions;    *)
(* summary maintenance expires, backfills, reconciles and removes them,    *)
(* reading first and updating in a later statement; an administrator       *)
(* releases bans and replaces or removes the credential file; a pick reads *)
(* the two tables with two statements.  One action is one SQL statement or *)
(* transaction.  Every statement may fail, which ends the caller's work.   *)
(***************************************************************************)
EXTENDS Integers, Sequences, FiniteSets

CONSTANTS
  Callbacks,          \* requests whose usage callbacks are handled concurrently
  Trigger,            \* the quota trigger, which probes the credential
  ForbiddenThreshold, \* forbiddenInvalidAuthThreshold: consecutive 403s
  Fallback,           \* length of a ban without quota headers (5 h)
  Horizon,            \* bound on the clock
  MaxEvents,          \* bound on the rows of both logs
  MaxRuns,            \* bound on quota_trigger_runs
  Scenes,             \* the casts a behaviour may have: who acts, which answers come
  MaxIncidents        \* bound on the administrator's actions and failed rounds

ASSUME TriggerAssumption == Trigger \notin Callbacks
ASSUME BoundsAssumption ==
  /\ ForbiddenThreshold \in Nat \ {0}
  /\ Fallback \in Nat \ {0}
  /\ Horizon \in Nat \ {0}
  /\ {MaxEvents, MaxRuns, MaxIncidents} \subseteq Nat

Reporters == Callbacks \cup {Trigger}
Time == 1 .. Horizon
\* A quota reset lies in the future of the answer that carries it.
Resets == 2 .. Horizon + Fallback

\* What an answer of the provider means to the plugin.  "limited" is a 429 with
\* quota headers (a full window and its reset), "throttled" a 429 without.
Kinds == {"ok", "limited", "throttled", "unauthorized", "deactivated", "forbidden"}
Event == [at : Time \cup {0}, kind : Kinds, reset : Resets \cup {0}]

\* Who may act beside the callbacks, of which those in the cast do.
Roles == Reporters \cup {"maintenance", "dashboard", "pick", "administrator", "crash"}
ASSUME ScenesAssumption ==
  Scenes \subseteq [cast : SUBSET Roles, answers : SUBSET Kinds, probes : SUBSET Kinds]

VARIABLES
  clock,      \* Unix seconds; a time of 0 in a row means none
  usage,      \* usage_events, in the order of their ids
  runs,       \* quota_trigger_runs, in the order of their ids
  ban,        \* the row of autoban_bans
  invalid,    \* the row of invalid_auths
  file,       \* the credential file: present, and its modification time
  work,       \* what each callback and the trigger are doing
  maint,      \* what summary maintenance is doing
  manager,    \* summaryMaintenanceState: the revision of the last round that succeeded
  pending,    \* restriction writes announced and not finished
  pick,       \* a pick that populates its snapshot from the two tables
  scene,      \* the cast of this behaviour, and how requests and probes are answered
  incidents,  \* actions of the administrator and failed rounds so far
  stale,      \* a restriction change was announced since it read the generation
  owed,       \* lifts committed and not announced yet, counted while a pick is in the cast
  quiet,      \* history: nobody else acted since a full round began
  throughout  \* history: the credential was restricted ever since it began

reports == << usage, runs >>
vars == << clock, usage, runs, ban, invalid, file, work, maint, manager, pending, pick, scene, incidents, stale,
          owed, quiet, throughout >>

NoWork == [pc |-> "idle", started |-> 0, finished |-> 0, kind |-> "ok", reset |-> 0, lifted |-> FALSE]
Resting == [pc |-> "idle", now |-> 0, writing |-> FALSE, row |-> NoWork,
            authoritative |-> TRUE, present |-> TRUE]
Never == [usage |-> 0, runs |-> 0, invalid |-> 0, ban |-> << >>, file |-> << >>]
NoPick == [pc |-> "idle", now |-> 0, banned |-> FALSE, invalid |-> FALSE]

Init ==
  /\ clock = 1
  /\ usage = << >> /\ runs = << >>
  /\ ban = [active |-> FALSE, at |-> 0, reset |-> 0, released |-> 0]
  /\ invalid = [active |-> FALSE, at |-> 0]
  /\ file = [present |-> TRUE, mtime |-> 0]
  /\ work = [r \in Reporters |-> NoWork]
  /\ maint = Resting
  /\ manager = Never
  /\ pending = 0
  /\ pick = NoPick
  /\ scene \in Scenes
  /\ incidents = 0
  /\ stale = FALSE
  /\ owed = 0
  /\ throughout = FALSE
  /\ quiet = FALSE

Entries(log) == {log[i] : i \in DOMAIN log}
Log == Entries(usage) \cup Entries(runs)

\* ORDER BY requested_at DESC, id DESC LIMIT 1, of a log that is not empty.
Latest(log) ==
  log[CHOOSE i \in DOMAIN log :
        \A j \in DOMAIN log : log[j].at < log[i].at \/ (log[j].at = log[i].at /\ j <= i)]

Incident == incidents < MaxIncidents /\ incidents' = incidents + 1

\* A success of either log later than t.
LaterSuccess(t) == \E e \in Log : e.kind = "ok" /\ e.at > t

\* What the scheduler refuses the credential for at time t.
Restricted == (ban.active /\ ban.reset > clock) \/ invalid.active

\* The history variables restart with a pick and with a full round.
ObserveHistory ==
  /\ throughout' = (pick'.pc # "idle" /\ Restricted' /\ (throughout \/ pick.pc = "idle"))
  /\ quiet' = (/\ maint'.pc # "idle"
               /\ \/ maint.pc = "idle" /\ maint'.pc = "backfill"
                  \/ quiet /\ maint' # maint)
  /\ UNCHANGED scene
Observe == ObserveHistory /\ UNCHANGED manager

-----------------------------------------------------------------------------
(* Restriction writes.  Every INSERT is bracketed by beginRestrictionWrite *)
(* and finishRestrictionWrite, which announce it; an UPDATE that lifts is   *)
(* announced some time after it has committed.                             *)

AnnounceIf(changed) == stale' = (stale \/ (changed /\ pick.pc # "idle")) /\ UNCHANGED owed
Announce == AnnounceIf(TRUE)
OweIf(changed) ==
  /\ owed' = IF changed /\ "pick" \in scene.cast THEN owed + 1 ELSE owed
  /\ UNCHANGED stale

Ban(t, reset) == [active |-> TRUE, at |-> t, reset |-> reset, released |-> 0]
LiftBan == ban' = [ban EXCEPT !.active = FALSE]
LiftInvalid == invalid' = [invalid EXCEPT !.active = FALSE]

\* The bans that have run out, and the invalidations older than the file.
Expired(row, now) == row.active /\ row.reset <= now
Replaced(row) == row.active /\ file.present /\ file.mtime > row.at
Expire(row, now) == IF Expired(row, now) THEN [row EXCEPT !.active = FALSE] ELSE row

\* A reporter r continues with pc.
Goes(r, pc) == work' = [work EXCEPT ![r].pc = pc]
Ends(r) == work' = [work EXCEPT ![r] = NoWork]
\* After the restriction write, the trigger still has its run to record.
AfterState(r) == IF r = Trigger THEN Goes(r, "recording") ELSE Ends(r)

-----------------------------------------------------------------------------
(* Usage callbacks and the quota trigger                                   *)

Send(c) ==
  /\ work[c].pc = "idle" /\ c \in scene.cast
  /\ work' = [work EXCEPT ![c] = [NoWork EXCEPT !.pc = "sent", !.started = clock]]
  /\ UNCHANGED << clock, reports, ban, invalid, file, maint, pending, pick, stale, owed, incidents >>
  /\ Observe

\* The answers possible now.  A success reports a window that is not full.
AllAnswers == {[kind |-> k, reset |-> 0] : k \in {"throttled", "unauthorized", "deactivated", "forbidden"}}
           \cup {[kind |-> "ok", reset |-> Horizon + Fallback]}
           \cup {[kind |-> "limited", reset |-> t] : t \in {s \in Resets : s > clock}}
Answers(kinds) == {a \in AllAnswers : a.kind \in kinds}

\* The usage row is committed before any restriction is touched.
RecordUsage(c, a) ==
  /\ work[c].pc = "sent" /\ Len(usage) + Len(runs) < MaxEvents
  /\ usage' = Append(usage, [at |-> work[c].started, kind |-> a.kind, reset |-> a.reset])
  /\ work' = [work EXCEPT ![c].pc = "post", ![c].kind = a.kind, ![c].reset = a.reset]
  /\ UNCHANGED << clock, runs, ban, invalid, file, maint, pending, pick, stale, owed, incidents >>
  /\ Observe

\* The newest row of each log with a snapshot of the quota window whose reset is
\* still to come: nothing orders the two logs when their times are equal.
SnapshotsIn(log, kinds) == {i \in DOMAIN log : log[i].kind \in kinds /\ log[i].reset > clock}
NewestIn(log, kinds) ==
  {log[i] : i \in {j \in SnapshotsIn(log, kinds) : \A k \in SnapshotsIn(log, kinds) :
                    log[k].at < log[j].at \/ (log[k].at = log[j].at /\ k <= j)}}
NewestSnapshots ==
  LET found == NewestIn(usage, {"ok", "limited"}) \cup NewestIn(runs, {"ok"})
  IN {e \in found : \A d \in found : d.at <= e.at}

\* A probe is sent to a configured account that is not invalid, and whose window
\* is not full unless it is banned.
Probed ==
  /\ file.present
  /\ ~invalid.active \/ Replaced(invalid)
  /\ (ban.active /\ ban.reset > clock) \/ \A e \in NewestSnapshots : e.kind = "ok"

\* A round removes replaced invalidations and expired bans, then probes.
StartTrigger ==
  /\ work[Trigger].pc = "idle" /\ Trigger \in scene.cast /\ Len(runs) < MaxRuns
  /\ Probed
  /\ invalid' = IF Replaced(invalid) THEN [invalid EXCEPT !.active = FALSE] ELSE invalid
  /\ ban' = Expire(ban, clock)
  /\ work' = [work EXCEPT ![Trigger] = [NoWork EXCEPT !.pc = "sent", !.started = clock]]
  /\ OweIf(Replaced(invalid) \/ Expired(ban, clock))
  /\ UNCHANGED << clock, reports, file, maint, pending, pick, incidents >>
  /\ Observe

\* The answer of a probe changes the state first; its run is recorded later.
AnswerProbe(a) ==
  /\ work[Trigger].pc = "sent"
  /\ work' = [work EXCEPT ![Trigger].pc = IF a.kind = "forbidden" THEN "recording" ELSE "post",
                          ![Trigger].finished = clock,
                          ![Trigger].kind = a.kind, ![Trigger].reset = a.reset]
  /\ UNCHANGED << clock, reports, ban, invalid, file, maint, pending, pick, stale, owed, incidents >>
  /\ Observe

\* The rows recentForbiddenThresholdReached looks at: the newest of both logs.
ForbiddenReached ==
  LET rows == {<< "usage", i >> : i \in DOMAIN usage} \cup {<< "run", i >> : i \in DOMAIN runs}
      row(x) == IF x[1] = "usage" THEN usage[x[2]] ELSE runs[x[2]]
      \* seq is id for a usage row and id + 1000000000 for a run.
      before(x, y) == \/ row(x).at > row(y).at
                      \/ /\ row(x).at = row(y).at
                         /\ \/ x[1] = "run" /\ y[1] = "usage"
                            \/ x[1] = y[1] /\ x[2] > y[2]
      top == {x \in rows : Cardinality({y \in rows : before(y, x)}) < ForbiddenThreshold}
  IN Cardinality(top) = ForbiddenThreshold /\ \A x \in top : row(x).kind = "forbidden"

\* A trigger counts the 403s after its run is recorded, as its row is one of them.
Counting(r) == work[r].kind = "forbidden" /\ work[r].pc = IF r = Trigger THEN "counting" ELSE "post"

\* Post-processing of an answer that restricts: the write is announced.
BeginWrite(r) ==
  /\ \/ work[r].pc = "post" /\ work[r].kind \in {"limited", "throttled", "unauthorized", "deactivated"}
     \/ Counting(r) /\ ForbiddenReached
  /\ pending' = pending + 1
  /\ Goes(r, "writing")
  /\ Announce
  /\ UNCHANGED << clock, reports, ban, invalid, file, maint, pick, incidents >>
  /\ Observe

\* Too few 403s in a row.
BelowThreshold(r) ==
  /\ Counting(r) /\ ~ForbiddenReached
  /\ IF r = Trigger THEN Goes(r, "reconcile") ELSE Ends(r)
  /\ UNCHANGED << clock, reports, ban, invalid, file, maint, pending, pick, stale, owed, incidents >>
  /\ Observe

\* The upserts overwrite whatever row is there.  An auto-ban is dated by its
\* callback, an invalidation by the request.
UpsertBan(r) ==
  /\ work[r].kind \in {"limited", "throttled"}
  /\ ban' = Ban(clock, IF work[r].kind = "limited" THEN work[r].reset ELSE clock + Fallback)
  /\ UNCHANGED invalid
UpsertInvalid(r) ==
  /\ work[r].kind \in {"unauthorized", "deactivated"}
  /\ invalid' = [active |-> TRUE, at |-> work[r].started]
  /\ UNCHANGED ban
UpsertForbidden(r) ==
  /\ work[r].kind = "forbidden"
  /\ invalid' = [active |-> TRUE, at |-> clock]
  /\ UNCHANGED ban
\* Mutant of CommitWrite: the end of a write is not announced.
CommitWriteUnannounced(r) ==
  /\ work[r].pc = "writing"
  /\ UpsertBan(r) \/ UpsertInvalid(r) \/ UpsertForbidden(r)
  /\ pending' = pending - 1
  /\ IF r = Trigger /\ work[r].kind = "forbidden" THEN Goes(r, "reconcile") ELSE AfterState(r)
  /\ UNCHANGED << clock, reports, file, maint, pick, stale, owed, incidents >>
  /\ Observe

CommitWrite(r) ==
  /\ work[r].pc = "writing"
  /\ UpsertBan(r) \/ UpsertInvalid(r) \/ UpsertForbidden(r)
  /\ pending' = pending - 1
  /\ Announce
  /\ IF r = Trigger /\ work[r].kind = "forbidden" THEN Goes(r, "reconcile") ELSE AfterState(r)
  /\ UNCHANGED << clock, reports, file, maint, pick, incidents >>
  /\ Observe

\* A success lifts what was observed before its request, one table at a time,
\* and announces once both are done.
RecoversInvalid(r) == invalid.active /\ invalid.at <= work[r].started
RecoversBan(r) == ban.active /\ ban.at <= work[r].started
ClearInvalid(r) ==
  /\ work[r].pc = "post" /\ work[r].kind = "ok"
  /\ IF RecoversInvalid(r) THEN LiftInvalid ELSE UNCHANGED invalid
  /\ work' = [work EXCEPT ![r].pc = "clearing", ![r].lifted = RecoversInvalid(r)]
  /\ UNCHANGED << clock, reports, ban, file, maint, pending, pick, stale, owed, incidents >>
  /\ Observe
ClearBan(r) ==
  /\ work[r].pc = "clearing"
  /\ IF RecoversBan(r) THEN LiftBan ELSE UNCHANGED ban
  /\ AfterState(r)
  /\ OweIf(work[r].lifted \/ RecoversBan(r))
  /\ UNCHANGED << clock, reports, invalid, file, maint, pending, pick, incidents >>
  /\ Observe

RecordRun ==
  /\ work[Trigger].pc = "recording" /\ Len(usage) + Len(runs) < MaxEvents
  /\ runs' = Append(runs, [at |-> work[Trigger].finished, kind |-> work[Trigger].kind,
                           reset |-> work[Trigger].reset])
  /\ Goes(Trigger, IF work[Trigger].kind = "forbidden" THEN "counting" ELSE "reconcile")
  /\ UNCHANGED << clock, usage, ban, invalid, file, maint, pending, pick, stale, owed, incidents >>
  /\ Observe

\* The newest snapshot says that the window of the ban is not full.
QuotaLow == ban.active /\ ban.reset > clock /\ \E e \in NewestSnapshots : e.kind = "ok"
\* It says nothing, or that the window is full.
QuotaNotLow == ~(ban.active /\ ban.reset > clock) \/ NewestSnapshots = {}
               \/ \E e \in NewestSnapshots : e.kind # "ok"

\* The trigger ends its round with the same reconciliation as maintenance.
TriggerReconciles ==
  /\ work[Trigger].pc = "reconcile"
  /\ \/ QuotaLow /\ Goes(Trigger, "lifting")
     \/ QuotaNotLow /\ Ends(Trigger)
  /\ UNCHANGED << clock, reports, ban, invalid, file, maint, pending, pick, stale, owed, incidents >>
  /\ Observe
TriggerLifts ==
  /\ work[Trigger].pc = "lifting"
  /\ LiftBan
  /\ OweIf(ban.active)
  /\ Ends(Trigger)
  /\ UNCHANGED << clock, reports, invalid, file, maint, pending, pick, incidents >>
  /\ Observe

\* A request or probe that never ends, a statement that fails, or an answer the
\* plugin does not act on.
GivesUp(r) ==
  /\ work[r].pc # "idle"
  /\ pending' = IF work[r].pc = "writing" THEN pending - 1 ELSE pending
  /\ AnnounceIf(work[r].pc = "writing")
  /\ Ends(r)
  /\ UNCHANGED << clock, reports, ban, invalid, file, maint, pick, incidents >>
  /\ Observe

Report(r) == BeginWrite(r) \/ BelowThreshold(r) \/ CommitWrite(r) \/ ClearInvalid(r) \/ ClearBan(r)

-----------------------------------------------------------------------------
(* Summary maintenance                                                     *)

Phases == << "backfill", "deactivatedUsage", "deactivatedRuns", "reconcile", "recoverInvalid",
             "recoverBan", "replaced", "missingInvalid", "missingBan", "refresh" >>
PhaseAfter(ph) == Phases[(CHOOSE i \in DOMAIN Phases : Phases[i] = ph) + 1]
Advance == maint' = [maint EXCEPT !.pc = PhaseAfter(maint.pc), !.writing = FALSE, !.row = NoWork]

\* currentRevision, as far as it concerns the credential.
Revision ==
  [usage |-> Len(usage), runs |-> Len(runs),
   invalid |-> IF invalid.active THEN invalid.at ELSE 0,
   ban |-> << ban.active \/ ban.released > 0,
              IF ban.released > ban.at THEN ban.released ELSE ban.at,
              IF ban.active THEN ban.reset ELSE 0 >>,
   file |-> file]

\* A round reads its time, expires the bans that have run out, and goes on with
\* the full reconciliation unless it is a light one.
Round(full, authoritative) ==
  /\ ban' = Expire(ban, clock)
  /\ OweIf(Expired(ban, clock))
  /\ maint' = IF full THEN [Resting EXCEPT !.pc = "backfill", !.now = clock, !.authoritative = authoritative]
              ELSE [Resting EXCEPT !.pc = "refresh"]
  /\ UNCHANGED << clock, reports, invalid, file, work, pending, pick, incidents >>
  /\ Observe

\* summaryMaintenanceManager.run skips a round when nothing changed and no reset is
\* due; after the first round it runs full ones only when the files changed.
StartMaintenance(authoritative) ==
  /\ maint.pc = "idle" /\ "maintenance" \in scene.cast
  /\ manager # Revision \/ Expired(ban, clock)
  /\ Round(manager.file # file, authoritative)

\* The dashboard's synchronous refresh runs a full round.
RefreshDashboard(authoritative) ==
  /\ maint.pc = "idle" /\ "dashboard" \in scene.cast
  /\ Round(TRUE, authoritative)

\* The newest usage row is a 429 whose full window is still to reset, and no
\* success is later.
Backfillable ==
  /\ usage # << >>
  /\ LET e == Latest(usage)
     IN e.kind = "limited" /\ e.reset > maint.now /\ ~LaterSuccess(e.at)

\* Mutant of DeactivatedIn: a 402 stands even when the file is newer.
DeactivatedInWhateverFile(log) ==
  log # << >> /\ LET e == Latest(log) IN e.kind = "deactivated" /\ ~LaterSuccess(e.at)

\* The newest row of a log is a 402 that neither a new file nor a success outdates,
\* of a file that an authoritative listing does not miss.
DeactivatedIn(log) ==
  /\ log # << >>
  /\ LET e == Latest(log)
     IN /\ e.kind = "deactivated" /\ ~LaterSuccess(e.at)
        /\ IF file.present THEN file.mtime <= e.at ELSE ~maint.authoritative

BackfillLog == IF maint.pc = "deactivatedRuns" THEN runs ELSE usage
BackfillWanted == IF maint.pc = "backfill" THEN Backfillable ELSE DeactivatedIn(BackfillLog)

\* What a backfill read is written by a later statement.
ReadBackfill ==
  /\ maint.pc \in {"backfill", "deactivatedUsage", "deactivatedRuns"} /\ ~maint.writing
  /\ IF BackfillWanted
       THEN /\ maint' = [maint EXCEPT !.writing = TRUE, !.row = Latest(BackfillLog)]
            /\ pending' = pending + 1
            /\ Announce
       ELSE Advance /\ UNCHANGED << pending, stale, owed >>
  /\ UNCHANGED << clock, reports, ban, invalid, file, work, pick, incidents >>
  /\ Observe

\* Mutant of BackfilledBan: a release does not outdate the evidence before it.
BackfilledBanIgnoringRelease(e) ==
  IF ~ban.active \/ e.reset >= ban.reset
    THEN [active |-> ban.active \/ e.reset > maint.now, at |-> e.at, reset |-> e.reset, released |-> ban.released]
    ELSE ban

\* Mutant of BackfilledBan: only rows that are still active are updated.
BackfilledBanOnlyActive(e) ==
  IF ban.active /\ e.reset >= ban.reset THEN [ban EXCEPT !.at = e.at, !.reset = e.reset] ELSE ban

\* ON CONFLICT DO UPDATE ... WHERE: a ban that resets later is kept, a released
\* one is replaced only by evidence newer than its release.
BackfilledBan(e) ==
  LET newer == ban.released = 0 \/ e.at > ban.released
  IN IF (~ban.active \/ e.reset >= ban.reset) /\ (newer \/ ban.active)
       THEN [active |-> ban.active \/ (newer /\ e.reset > maint.now),
             at |-> e.at, reset |-> e.reset,
             released |-> IF e.at > ban.released THEN 0 ELSE ban.released]
       ELSE ban

WriteBackfill ==
  /\ maint.pc \in {"backfill", "deactivatedUsage", "deactivatedRuns"} /\ maint.writing
  /\ IF maint.pc = "backfill"
       THEN ban' = BackfilledBan(maint.row) /\ UNCHANGED invalid
       ELSE invalid' = [active |-> TRUE, at |-> maint.row.at] /\ UNCHANGED ban
  /\ pending' = pending - 1
  /\ Announce
  /\ Advance
  /\ UNCHANGED << clock, reports, file, work, pick, incidents >>
  /\ Observe

\* What each read-then-update step of a round looks for.
RecoveredInvalid == invalid.active /\ LaterSuccess(invalid.at)
RecoveredBan == ban.active /\ ban.reset > clock /\ LaterSuccess(ban.at)
MissingInvalid == invalid.active /\ ~maint.present
MissingBan == ban.active /\ ban.reset > clock /\ ~maint.present
Lifts(ph) == CASE ph = "reconcile" -> QuotaLow
               [] ph = "recoverInvalid" -> RecoveredInvalid
               [] ph = "recoverBan" -> RecoveredBan
               [] ph = "missingInvalid" -> MissingInvalid
               [] ph = "missingBan" -> MissingBan
LiftPhases == {"reconcile", "recoverInvalid", "recoverBan", "missingInvalid", "missingBan"}
Keeps(ph) == IF ph = "reconcile" THEN QuotaNotLow ELSE ~Lifts(ph)

ReadLift ==
  /\ maint.pc \in LiftPhases /\ ~maint.writing
  /\ \/ Lifts(maint.pc) /\ maint' = [maint EXCEPT !.writing = TRUE]
     \/ Keeps(maint.pc) /\ Advance
  /\ UNCHANGED << clock, reports, ban, invalid, file, work, pending, pick, stale, owed, incidents >>
  /\ Observe

\* Mutant of WriteLift: a recovered invalidation lifts the ban.
WriteLiftOfBan ==
  /\ maint.pc \in LiftPhases /\ maint.writing
  /\ IF maint.pc = "missingInvalid"
       THEN LiftInvalid /\ OweIf(invalid.active) /\ UNCHANGED ban
       ELSE LiftBan /\ OweIf(ban.active) /\ UNCHANGED invalid
  /\ Advance
  /\ UNCHANGED << clock, reports, file, work, pending, pick, incidents >>
  /\ Observe

\* UPDATE ... SET active=0 WHERE active=1 AND auth_id=?: whatever row is there now.
WriteLift ==
  /\ maint.pc \in LiftPhases /\ maint.writing
  /\ IF maint.pc \in {"recoverInvalid", "missingInvalid"}
       THEN LiftInvalid /\ OweIf(invalid.active) /\ UNCHANGED ban
       ELSE LiftBan /\ OweIf(ban.active) /\ UNCHANGED invalid
  /\ Advance
  /\ UNCHANGED << clock, reports, file, work, pending, pick, incidents >>
  /\ Observe

\* clearReplacedInvalidAuths, then the configured accounts are read again for the
\* last two steps; a listing that is not authoritative removes nothing.
ClearReplaced ==
  /\ maint.pc = "replaced"
  /\ IF Replaced(invalid) THEN LiftInvalid ELSE UNCHANGED invalid
  /\ OweIf(Replaced(invalid))
  /\ maint' = [maint EXCEPT !.pc = PhaseAfter("replaced"), !.present = file.present \/ ~maint.authoritative]
  /\ UNCHANGED << clock, reports, ban, file, work, pending, pick, incidents >>
  /\ Observe

\* The refresh of the snapshot cache that ends a round is module SchedulerState's.
\* The manager remembers the revision after the round, not the one it began with.
EndMaintenance ==
  /\ maint.pc = "refresh"
  /\ maint' = Resting
  /\ manager' = IF "maintenance" \in scene.cast THEN Revision ELSE manager
  /\ UNCHANGED << clock, reports, ban, invalid, file, work, pending, pick, stale, owed, incidents >>
  /\ ObserveHistory

MaintenanceFails ==
  /\ maint.pc # "idle" /\ Incident
  /\ LET open == maint.writing /\ maint.pc \notin LiftPhases
     IN /\ pending' = IF open THEN pending - 1 ELSE pending
        /\ AnnounceIf(open)
  /\ maint' = Resting
  /\ UNCHANGED << clock, reports, ban, invalid, file, work, pick >>
  /\ Observe

\* The process dies and is started again: what was in flight is lost, and so is
\* what the manager remembered.
Restart ==
  /\ {"maintenance", "crash"} \subseteq scene.cast /\ Incident
  /\ work' = [r \in Reporters |-> NoWork]
  /\ maint' = Resting /\ pick' = NoPick
  /\ manager' = Never
  /\ pending' = 0 /\ stale' = FALSE /\ owed' = 0
  /\ UNCHANGED << clock, reports, ban, invalid, file >>
  /\ ObserveHistory

MaintenanceStep ==
  ReadBackfill \/ WriteBackfill \/ ReadLift \/ WriteLift
  \/ ClearReplaced \/ EndMaintenance

-----------------------------------------------------------------------------
(* The administrator                                                       *)

Administers == "administrator" \in scene.cast /\ Incident

\* releaseAutobans
Release ==
  /\ Administers
  /\ ban.active
  /\ ban' = [ban EXCEPT !.active = FALSE, !.released = clock]
  /\ OweIf(TRUE)
  /\ UNCHANGED << clock, reports, invalid, file, work, maint, pending, pick >>
  /\ Observe

ReplaceFile ==
  /\ Administers
  /\ ~file.present \/ file.mtime < clock
  /\ file' = [present |-> TRUE, mtime |-> clock]
  /\ UNCHANGED << clock, reports, ban, invalid, work, maint, pending, pick, stale, owed >>
  /\ Observe

RemoveFile ==
  /\ Administers
  /\ file.present
  /\ file' = [file EXCEPT !.present = FALSE]
  /\ UNCHANGED << clock, reports, ban, invalid, work, maint, pending, pick, stale, owed >>
  /\ Observe

-----------------------------------------------------------------------------
(* A pick whose snapshot cache is empty: the generation, the bans, and the *)
(* invalid credentials are read one after the other.                       *)

StartPick ==
  /\ pick.pc = "idle" /\ "pick" \in scene.cast
  /\ pick' = [NoPick EXCEPT !.pc = "bans", !.now = clock]
  /\ stale' = FALSE /\ UNCHANGED owed
  /\ UNCHANGED << clock, reports, ban, invalid, file, work, maint, pending, incidents >>
  /\ Observe

ReadBans ==
  /\ pick.pc = "bans"
  /\ pick' = [pick EXCEPT !.pc = "invalids", !.banned = ban.active /\ ban.reset > pick.now]
  /\ UNCHANGED << clock, reports, ban, invalid, file, work, maint, pending, stale, owed, incidents >>
  /\ Observe

ReadInvalids ==
  /\ pick.pc = "invalids"
  /\ pick' = [pick EXCEPT !.pc = "publish", !.invalid = invalid.active]
  /\ UNCHANGED << clock, reports, ban, invalid, file, work, maint, pending, stale, owed, incidents >>
  /\ Observe

\* publishCodexOrCurrent refuses what a change was announced for; the pick retries
\* or fails.
Publishable == ~stale /\ pending = 0
EndPick ==
  /\ pick.pc = "publish"
  /\ pick' = NoPick
  /\ stale' = FALSE /\ UNCHANGED owed
  /\ UNCHANGED << clock, reports, ban, invalid, file, work, maint, pending, incidents >>
  /\ Observe

\* The announcement of a lift, after its commit.
AnnounceLift ==
  /\ owed > 0 /\ owed' = owed - 1
  /\ stale' = (pick.pc # "idle")
  /\ UNCHANGED << clock, reports, ban, invalid, file, work, maint, pending, pick, incidents >>
  /\ Observe

Tick ==
  /\ clock < Horizon
  /\ clock' = clock + 1
  /\ UNCHANGED << reports, ban, invalid, file, work, maint, pending, pick, stale, owed, incidents >>
  /\ Observe

-----------------------------------------------------------------------------
Next ==
  \/ \E c \in Callbacks : Send(c) \/ \E a \in Answers(scene.answers) : RecordUsage(c, a)
  \/ StartTrigger
  \/ \E a \in Answers(scene.probes) : AnswerProbe(a)
  \/ \E r \in Reporters : Report(r) \/ GivesUp(r)
  \/ RecordRun \/ TriggerReconciles \/ TriggerLifts
  \/ \E authoritative \in BOOLEAN : StartMaintenance(authoritative) \/ RefreshDashboard(authoritative)
  \/ MaintenanceStep
  \/ MaintenanceFails \/ Restart
  \/ Release \/ ReplaceFile \/ RemoveFile
  \/ AnnounceLift
  \/ StartPick \/ ReadBans \/ ReadInvalids \/ EndPick
  \/ Tick

Spec == Init /\ [][Next]_vars

(***************************************************************************)
(* Fairness.  summaryMaintenanceManager looks every interval whether to    *)
(* run a round, and runs it to its end; finitely many rounds fail          *)
(* (MaxIncidents).  Nobody has to refresh the dashboard.                   *)
(***************************************************************************)
Fairness ==
  /\ WF_vars(\E authoritative \in BOOLEAN : StartMaintenance(authoritative))
  /\ WF_vars(MaintenanceStep)

FairSpec == Spec /\ Fairness

-----------------------------------------------------------------------------
(* Properties                                                              *)

Moments == Time \cup {0}
BanRows == [active : BOOLEAN, at : Moments, reset : Resets \cup {0}, released : Moments]
Jobs ==
  [pc : {"idle", "sent", "post", "writing", "clearing", "recording", "counting", "reconcile", "lifting"},
   started : Moments, finished : Moments, kind : Kinds, reset : Resets \cup {0}, lifted : BOOLEAN]
PhaseNames == {Phases[i] : i \in DOMAIN Phases}
Rounds ==
  [pc : {"idle"} \cup PhaseNames, now : Moments, writing : BOOLEAN, row : Event \cup {NoWork},
   authoritative : BOOLEAN, present : BOOLEAN]

TypeOK ==
  /\ clock \in Time
  /\ usage \in Seq(Event) /\ runs \in Seq(Event)
  /\ ban \in BanRows
  /\ invalid \in [active : BOOLEAN, at : Moments]
  /\ file \in [present : BOOLEAN, mtime : Moments]
  /\ work \in [Reporters -> Jobs]
  /\ maint \in Rounds
  /\ pick \in [pc : {"idle", "bans", "invalids", "publish"}, now : Moments, banned : BOOLEAN, invalid : BOOLEAN]
  /\ stale \in BOOLEAN /\ quiet \in BOOLEAN /\ throughout \in BOOLEAN

\* released_at records a release only while it is in force: whatever callbacks,
\* expiry, reconciliation and backfill do, a row marked as released is inactive.
ReleasedIsInactive == ban.released # 0 => ~ban.active

\* A pick whose snapshot is published never offers a credential that was
\* restricted during the whole pick, although it reads the two tables one after
\* the other and the restriction may move from one to the other in between.
PublishedPicksSeeRestriction ==
  pick.pc = "publish" /\ Publishable /\ throughout => pick.banned \/ pick.invalid

\* The newest 429 leaves a ban alone that resets later, and a success between the
\* two ends that ban: a round lifts it, and only the next one would record the 429.
Outlived == LaterSuccess(ban.at) /\ ban.reset > Latest(usage).reset

\* Nothing a full round did is undone by the next one: the steps of a round that
\* backfill and those that clean up agree on what the logs and the file say.
\* They do not for a ban whose file is gone: backfillAutobansFromUsage does not
\* look at the file, so every round records that ban and lifts it again.  Nor for
\* a ban outlived, nor when a probe succeeds in the second of the newest 429.
MaintenanceSettles ==
  quiet /\ maint.pc = "refresh" =>
    /\ Backfillable /\ file.present =>
         \/ BackfilledBan(Latest(usage)) = ban
         \/ \E e \in Entries(runs) : e.kind = "ok" /\ e.at = Latest(usage).at
         \/ Outlived
    /\ \A log \in {usage, runs} : DeactivatedIn(log) => invalid.active
    /\ ~RecoveredInvalid /\ ~RecoveredBan /\ ~Replaced(invalid)
    /\ ~file.present /\ maint.authoritative => ~invalid.active /\ ~(ban.active /\ ban.reset > clock)

\* No round of this process has succeeded or is under way.
Started == manager = Never /\ maint.pc = "idle" /\ "maintenance" \in scene.cast

\* A 429 whose auto-ban was lost, because the statement failed or the process died,
\* bans the credential once the process is started again: its usage row outlives it.
BanIsDue ==
  /\ usage # << >> /\ file.present
  /\ LET e == Latest(usage)
     IN /\ e.kind = "limited" /\ e.reset > clock /\ ~LaterSuccess(e.at)
        /\ ban.released = 0 \/ e.at > ban.released
LostBanIsRestored == Started /\ BanIsDue ~> (ban.active \/ ~BanIsDue)

\* A success newer than the restriction ends it then, even if clearing it failed.
RecoveryIsNoticed == Started /\ (RecoveredInvalid \/ RecoveredBan) ~> ~(RecoveredInvalid \/ RecoveredBan)

\* README: a credential is invalid until its file is replaced.
ReplacementIsNoticed == "maintenance" \in scene.cast /\ Replaced(invalid) ~> ~Replaced(invalid)

=============================================================================
