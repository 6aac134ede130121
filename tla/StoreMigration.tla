--------------------------- MODULE StoreMigration ---------------------------
(***************************************************************************)
(* Opening usage.db: the upgrade of its schema to version 6, the binding   *)
(* of the secret that fingerprints API keys, the rewrite of stored         *)
(* identities, and the reconciliation of the privacy quarantine.  Several  *)
(* plugin processes may open the same file.  An upgrade is one IMMEDIATE   *)
(* transaction of many steps: its steps work on a copy of the database,    *)
(* which a commit publishes and a failure or a crash discards.  The secret *)
(* file and a process's cached secret live outside the transaction.        *)
(*                                                                         *)
(* An identity is the form in which a row names an API key: the key itself,*)
(* its v0 fingerprint (the same in every installation), its v1 fingerprint *)
(* under a secret, or "legacy", the v1 form of a v0 whose key is unknown.  *)
(* The DDL of a version is abstracted to the version, and the columns of a *)
(* row that only break ties to its number.                                 *)
(***************************************************************************)
EXTENDS Integers, FiniteSets

CONSTANTS
  Processes,    \* plugin processes that open the file
  Keys,         \* API keys
  Secrets,      \* HMAC secrets that may be generated or installed
  None,
  Databases,    \* the files a behaviour may start from: [db, secretFile]
  Milliseconds, \* resets above it were stored in milliseconds
  Horizon,      \* bound on the clock
  MaxWrites,    \* bound on the writes of open processes
  MaxIncidents  \* bound on failures, crashes and acts of the administrator

Current == 6
Partial == "partial"   \* a secret file created and not written

\* invalid_auths, autoban_bans, xai_account_states, and usage_events for the tables
\* without a key on the identity.
Tables == {"invalid", "ban", "xai", "usage"}
Forms == {"raw", "v0", "v1", "legacy"}
Identities == [form : Forms, key : Keys, secret : Secrets \cup {None}]
Spellings == {"", "codex", "Codex", "xai", "other"}
Rows == [nr : Nat, table : Tables, provider : Spellings, id : Identities, alias : BOOLEAN,
         active : BOOLEAN, at : Nat, reset : Nat, released : Nat]

Markers == [provider : Spellings, id : Identities]
Database == [version : Nat, rows : SUBSET Rows, bound : Secrets \cup {None},
             markers : SUBSET Markers, reservations : Nat]

ASSUME ConstantsAssumption ==
  /\ None \notin Secrets /\ Partial \notin Secrets /\ None \notin Processes
  /\ {Horizon, MaxWrites, MaxIncidents} \subseteq Nat /\ Milliseconds \in Nat \ {0}

VARIABLES
  db,          \* what is committed: version, rows, bound secret, markers, reservations
  secretFile,  \* None, Partial or a secret
  configured,  \* the API keys in the host's configuration
  now,         \* the clock
  pc,          \* per process: where the opening of the store is
  cached,      \* per process: apiKeySecrets.byDB
  seen,        \* per process: what it read before its transaction
  tx,          \* the write transaction under way
  original,    \* history: the rows the behaviour started from
  lifted,      \* history: restrictions an administrator released
  writes, incidents

env == << secretFile, configured, now >>
procs == << pc, cached, seen >>
history == << original, lifted >>
bounds == << writes, incidents >>
vars == << db, env, procs, tx, history, bounds >>

NoTx == [owner |-> None]
Unread == [version |-> 0, markers |-> {}, keys |-> {}]

-----------------------------------------------------------------------------
(* Rows and identities                                                     *)

Own(table) == IF table = "xai" THEN "xai" ELSE "codex"

\* A blank provider is the table's own; letter case does not count.
Canonical(row) ==
  CASE row.provider = "" -> Own(row.table)
    [] row.provider = "Codex" -> "codex"
    [] OTHER -> row.provider

\* Restrictions of another provider are inert.
Restricts(row, t) ==
  /\ row.active /\ Canonical(row) = Own(row.table)
  /\ CASE row.table = "invalid" -> TRUE
       [] row.table = "ban" -> row.reset > t
       [] row.table = "xai" -> row.reset = 0 \/ row.reset > t
       [] row.table = "usage" -> FALSE
InForce(row) == Restricts(row, now)

V1(k, s) == [form |-> "v1", key |-> k, secret |-> s]
V0Of(keys) == {[form |-> "v0", key |-> k, secret |-> None] : k \in keys}
Legacy(k, s) == [form |-> "legacy", key |-> k, secret |-> s]
Num(b) == IF b THEN 1 ELSE 0

\* Which of the rows of one identity is kept: the order of the ROW_NUMBER of the
\* v6 migration and of the sourceWins functions of the v3 rewrite.
Rank(row) ==
  IF row.table = "ban"
    THEN << IF ~row.active /\ row.released > row.at THEN row.released ELSE row.at,
            1 - Num(row.active), row.reset, row.nr >>
    ELSE << Num(row.active), row.at, IF row.table = "xai" THEN row.reset ELSE 0, row.nr >>

Outranks(r, q) ==
  \E i \in 1 .. 4 : Rank(r)[i] > Rank(q)[i] /\ \A j \in 1 .. i - 1 : Rank(r)[j] = Rank(q)[j]

Best(rows) == CHOOSE r \in rows : \A q \in rows \ {r} : Outranks(r, q)

SameKey(r, q) == r.table = q.table /\ r.provider = q.provider /\ r.id = q.id

\* The reset of a row in seconds: those of xAI accounts always were.
Seconds(row) ==
  IF row.table # "xai" /\ row.reset > Milliseconds THEN row.reset \div Milliseconds ELSE row.reset

\* The files earlier versions leave: since version 3 bound, protected and with a
\* marker for every restriction known only by the fingerprint of an unknown key,
\* since version 4 in seconds, and of this version with canonical, merged rows.
ASSUME DatabasesAssumption ==
  \A d \in Databases :
    LET file == d.db IN
    /\ file \in Database /\ d.secretFile \in Secrets \cup {None, Partial}
    /\ IsFiniteSet(file.rows)
    /\ \A r, q \in file.rows : r.nr = q.nr => r = q
    /\ \A r \in file.rows : r.id.secret = None <=> r.id.form \in {"raw", "v0"}
    /\ file.version < 3 => file.bound = None /\ file.markers = {}
    /\ file.version >= 3 =>
         /\ file.bound # None
         /\ \A r \in file.rows :
              /\ r.id.form \in {"v1", "legacy"}
              /\ (Restricts(r, 1) /\ ~r.alias /\ r.id.form = "legacy" /\ r.id.secret = file.bound)
                   => [provider |-> Canonical(r), id |-> r.id] \in file.markers
         /\ \A m \in file.markers : m.id.secret = file.bound
    /\ \A r \in file.rows :
         (IF file.version < 4 THEN Seconds(r) ELSE r.reset) <= Milliseconds
    /\ file.version = Current =>
         /\ \A r \in file.rows : r.provider = Canonical(r)
         /\ \A r, q \in file.rows : r.table # "usage" /\ SameKey(r, q) => r = q

-----------------------------------------------------------------------------
Init ==
  /\ \E d \in Databases : db = d.db /\ secretFile = d.secretFile /\ original = d.db
  /\ configured \in SUBSET Keys
  /\ now = 1
  /\ pc = [p \in Processes |-> "closed"]
  /\ cached = [p \in Processes |-> None]
  /\ seen = [p \in Processes |-> Unread]
  /\ tx = NoTx
  /\ lifted = {}
  /\ writes = 0 /\ incidents = 0

-----------------------------------------------------------------------------
(* Processes                                                               *)

Goto(p, label) == pc' = [pc EXCEPT ![p] = label]
Incident == incidents < MaxIncidents /\ incidents' = incidents + 1 /\ UNCHANGED writes
Idle == tx = NoTx
In(p, stage) == tx.owner = p /\ tx.stage = stage
Enter(stage, data) == tx' = [tx EXCEPT !.stage = stage, !.db = data]

\* The secret a process finds, or None.
Secret(p) ==
  IF cached[p] # None THEN cached[p] ELSE IF secretFile \in Secrets THEN secretFile ELSE None
Cache(p, s) == cached' = [cached EXCEPT ![p] = s]

\* migrateSQLiteStore reads user_version: a newer file is refused, an older one
\* upgraded, and one of this version has its schema verified.
ReadVersion(p) ==
  /\ pc[p] = "closed" /\ db.version <= Current
  /\ seen' = [seen EXCEPT ![p].version = db.version]
  /\ Goto(p, IF db.version = Current THEN "verify" ELSE "upgrade")
  /\ UNCHANGED << db, env, cached, tx, history, bounds >>

Upgrading(p, version) ==
  /\ tx' = [owner |-> p, stage |-> "secret", db |-> db, from |-> version, todo |-> {}, unproven |-> {}]
  /\ UNCHANGED pc

\* Mutant: the version read before the lock is believed.
BeginWithoutReread(p) ==
  /\ pc[p] = "upgrade" /\ Idle
  /\ Upgrading(p, seen[p].version)
  /\ UNCHANGED << db, env, cached, seen, history, bounds >>

\* The version is read again inside the lock: another process may have upgraded.
Begin(p) ==
  /\ pc[p] = "upgrade" /\ Idle
  /\ IF db.version = Current
       THEN Goto(p, "verify") /\ UNCHANGED tx
       ELSE Upgrading(p, db.version)
  /\ UNCHANGED << db, env, cached, seen, history, bounds >>

\* Every stage may fail, which rolls the transaction back and closes the handle.
Fail(p) ==
  /\ pc[p] \notin {"closed", "open"}
  /\ Incident
  /\ tx' = IF tx.owner = p THEN NoTx ELSE tx
  /\ Goto(p, "closed")
  /\ seen' = [seen EXCEPT ![p] = Unread]
  /\ UNCHANGED << db, env, cached, history >>

\* The process dies: its cached secret is gone too, a secret file it was about to
\* write stays empty.
Crash(p) ==
  /\ pc[p] # "closed" \/ cached[p] # None
  /\ Incident
  /\ tx' = IF tx.owner = p THEN NoTx ELSE tx
  /\ Goto(p, "closed")
  /\ Cache(p, None)
  /\ seen' = [seen EXCEPT ![p] = Unread]
  /\ UNCHANGED << db, env, history >>

\* A stage that finds it cannot go on.
Refuse(p) ==
  /\ tx' = IF tx.owner = p THEN NoTx ELSE tx
  /\ Goto(p, "closed")
  /\ seen' = [seen EXCEPT ![p] = Unread]

-----------------------------------------------------------------------------
(* The upgrade                                                             *)

\* Those of foreign providers do not count, except in the usage log.
StoredV1 == {r \in tx.db.rows : /\ r.id.form \in {"v1", "legacy"}
                                /\ r.table = "usage" \/ Canonical(r) = Own(r.table)}

\* storedIdentityHasUsableAlias: another column of the row names the credential.
DependsOnlyOn(row, form, proven) == row.id.form \in form /\ ~row.alias /\ row.id \notin proven

\* bindAPIKeyFingerprintSecret accepts secret s for the copied database.
Binds(s) ==
  /\ s # None
  /\ IF tx.db.bound # None THEN s = tx.db.bound
     ELSE \A r \in tx.db.rows :
            InForce(r) => ~DependsOnlyOn(r, {"v1", "legacy"}, {V1(k, s) : k \in configured})

\* An existing secret is required once the file is bound or holds v1 fingerprints;
\* otherwise one is created.
NeedsSecret == tx.db.bound # None \/ StoredV1 # {}

BindSecret(p) ==
  /\ In(p, "secret")
  /\ IF tx.from >= 3 THEN Enter("resets", tx.db) /\ UNCHANGED procs
     ELSE IF Binds(Secret(p))
       THEN /\ Cache(p, Secret(p))
            /\ Enter("resets", [tx.db EXCEPT !.bound = Secret(p)])
            /\ UNCHANGED << pc, seen >>
       ELSE /\ NeedsSecret \/ secretFile = Partial \/ Secret(p) # None
            /\ Refuse(p)
            /\ Cache(p, Secret(p))
  /\ UNCHANGED << db, env, history, bounds >>

\* loadOrCreateAPIKeySecret: the file is created exclusively, then written.
CreateSecret(p) ==
  /\ In(p, "secret") /\ tx.from < 3
  /\ ~NeedsSecret /\ Secret(p) = None /\ secretFile = None
  /\ secretFile' = Partial
  /\ Enter("write", tx.db)
  /\ UNCHANGED << db, configured, now, procs, history, bounds >>

Fresh(s) ==
  /\ s # secretFile
  /\ \A q \in Processes : cached[q] # s
  /\ \A r \in db.rows : r.id.secret # s

WriteSecret(p) ==
  /\ In(p, "write")
  /\ \E s \in Secrets :
       /\ Fresh(s)
       /\ secretFile' = IF secretFile = Partial THEN s ELSE secretFile
       /\ Cache(p, s)
  /\ Enter("secret", tx.db)
  /\ UNCHANGED << db, configured, now, pc, seen, history, bounds >>

\* Mutant: files of version 2 and 3 are taken for normalized.
NormalizeResetsOfV1(p) ==
  /\ In(p, "resets")
  /\ Enter("reservations",
           IF tx.from >= 2 THEN tx.db
           ELSE [tx.db EXCEPT !.rows = {[r EXCEPT !.reset = Seconds(r)] : r \in tx.db.rows}])
  /\ UNCHANGED << db, env, procs, history, bounds >>

NormalizeResets(p) ==
  /\ In(p, "resets")
  /\ Enter("reservations",
           IF tx.from >= 4 THEN tx.db
           ELSE [tx.db EXCEPT !.rows = {[r EXCEPT !.reset = Seconds(r)] : r \in tx.db.rows}])
  /\ UNCHANGED << db, env, procs, history, bounds >>

\* Reservations of an older identity scheme are discarded.
DiscardReservations(p) ==
  /\ In(p, "reservations")
  /\ Enter("providers", IF tx.from >= 5 THEN tx.db ELSE [tx.db EXCEPT !.reservations = 0])
  /\ UNCHANGED << db, env, procs, history, bounds >>

\* Per provider and identity the best row is kept.
KeepBest(rows) == {r \in rows : r.table = "usage" \/ \A q \in rows \ {r} : SameKey(q, r) => Outranks(r, q)}

\* migrateProviderKeysV6 canonicalizes the providers and rebuilds the tables.
MigrateProviderKeys(p) ==
  /\ In(p, "providers")
  /\ Enter("identities",
           [tx.db EXCEPT !.rows = KeepBest({[r EXCEPT !.provider = Canonical(r)] : r \in tx.db.rows})])
  /\ UNCHANGED << db, env, procs, history, bounds >>

\* Mutant: a reset of 0 counts as past.
UnprovenWithReset(keys) ==
  {r \in tx.db.rows : /\ InForce(r) /\ (r.table = "invalid" \/ r.reset > now)
                      /\ DependsOnlyOn(r, {"v0"}, V0Of(keys))}

\* unprovenActiveV0Quarantines: restrictions in force known only by a v0 fingerprint
\* of a key that is not configured.
Unproven(keys) == {r \in tx.db.rows : InForce(r) /\ DependsOnlyOn(r, {"v0"}, V0Of(keys))}

Mark(row, id) == [provider |-> row.provider, id |-> id]

\* migrateStoredIdentitiesV3 begins: configured keys and quarantines are computed once.
BeginRewrite(p) ==
  /\ In(p, "identities")
  /\ tx' = IF tx.from >= 3 THEN [tx EXCEPT !.stage = "version"]
           ELSE [tx EXCEPT !.stage = "rewrite",
                           !.todo = {r.nr : r \in tx.db.rows},
                           !.unproven = {Mark(r, Legacy(r.id.key, cached[p])) : r \in Unproven(configured)}]
  /\ seen' = [seen EXCEPT ![p].keys = IF tx.from >= 3 THEN {} ELSE configured]
  /\ UNCHANGED << db, env, pc, cached, history, bounds >>

\* The protected form of an identity.
Protected(id, keys, s) ==
  CASE id.form = "raw" \/ (id.form = "v0" /\ id.key \in keys) -> V1(id.key, s)
    [] id.form = "v0" /\ id.key \notin keys -> Legacy(id.key, s)
    [] OTHER -> id

\* The rewrite of a row by the reconciliation: only quarantined fingerprints of
\* configured keys.
Resolved(id, markers, keys, s) ==
  IF id \in {m.id : m \in markers} /\ id = Legacy(id.key, s) /\ id.key \in keys
    THEN V1(id.key, s) ELSE id

Rewritten(p, id) ==
  IF pc[p] = "upgrade" THEN Protected(id, seen[p].keys, cached[p])
  ELSE Resolved(id, seen[p].markers, seen[p].keys, cached[p])

\* Mutant: the row being rewritten wins a collision.
WithReplaced(rows, old, new) ==
  {r \in rows \ {old} : r.table = "usage" \/ ~SameKey(r, new)} \cup {new}

\* A rewritten row that meets one of the same provider and identity is merged: the
\* better row is kept.
With(rows, old, new) ==
  LET met == {r \in rows \ {old} : r.table # "usage" /\ SameKey(r, new)} IN
  (rows \ ({old} \cup met)) \cup {Best({new} \cup met)}

\* The row with number nr is rewritten, unless a merge has removed it.
RowRewritten(p, rows, nr) ==
  IF \E r \in rows : r.nr = nr
    THEN LET old == CHOOSE r \in rows : r.nr = nr
         IN With(rows, old, [old EXCEPT !.id = Rewritten(p, old.id)])
    ELSE rows

\* The rows are scanned in the order of their rowids, which is any order.
RewriteRow(p) ==
  /\ In(p, "rewrite")
  /\ \E nr \in tx.todo :
       tx' = [tx EXCEPT !.todo = @ \ {nr},
                        !.db = [tx.db EXCEPT !.rows = RowRewritten(p, tx.db.rows, nr)]]
  /\ UNCHANGED << db, env, procs, history, bounds >>

\* Markers, indexes and user_version are written.
FinishRewrite(p) ==
  /\ In(p, "rewrite") /\ tx.todo = {} /\ pc[p] = "upgrade"
  /\ Enter("version", [tx.db EXCEPT !.markers =
                         {m \in @ : m.provider \notin {u.provider : u \in tx.unproven}} \cup tx.unproven])
  /\ UNCHANGED << db, env, procs, history, bounds >>

CommitUpgrade(p) ==
  /\ In(p, "version")
  /\ db' = [tx.db EXCEPT !.version = Current]
  /\ tx' = NoTx
  /\ Goto(p, "verify")
  /\ seen' = [seen EXCEPT ![p] = Unread]
  /\ UNCHANGED << env, cached, history, bounds >>

-----------------------------------------------------------------------------
(* Verification and the quarantine                                         *)

\* Mutant: the cached secret is not compared with the one the file is bound to.
VerifyPresence(p) ==
  /\ pc[p] = "verify"
  /\ Cache(p, Secret(p))
  /\ IF Secret(p) # None
       THEN Goto(p, "markers") /\ UNCHANGED << seen, tx >>
       ELSE Refuse(p)
  /\ UNCHANGED << db, env, history, bounds >>

\* verifyAPIKeyFingerprintSecretBinding.
VerifyBinding(p) ==
  /\ pc[p] = "verify"
  /\ Cache(p, Secret(p))
  /\ IF db.bound # None /\ Secret(p) = db.bound
       THEN Goto(p, "markers") /\ UNCHANGED << seen, tx >>
       ELSE Refuse(p)
  /\ UNCHANGED << db, env, history, bounds >>

\* The markers and the configured keys are read outside the transaction.
LoadMarkers(p) ==
  /\ pc[p] = "markers"
  /\ IF db.markers = {}
       THEN Goto(p, "open") /\ seen' = [seen EXCEPT ![p] = Unread]
       ELSE /\ Goto(p, "reconcile")
            /\ seen' = [seen EXCEPT ![p] = [version |-> 0, markers |-> db.markers, keys |-> configured]]
  /\ UNCHANGED << db, env, cached, tx, history, bounds >>

BeginReconcile(p) ==
  /\ pc[p] = "reconcile" /\ Idle
  /\ tx' = [owner |-> p, stage |-> "rewrite", db |-> db, from |-> Current,
            todo |-> {r.nr : r \in {q \in db.rows : Rewritten(p, q.id) # q.id}}, unproven |-> {}]
  /\ UNCHANGED << db, env, procs, history, bounds >>

\* activeQuarantineReferences: unresolved fingerprints that a restriction in force
\* still names.
Referenced(p) ==
  {m \in seen[p].markers :
     /\ Resolved(m.id, {m}, seen[p].keys, cached[p]) = m.id
     /\ \E r \in tx.db.rows : InForce(r) /\ r.provider = m.provider /\ r.id = m.id}

\* The markers that were loaded are reduced or removed, and the store is open.
CommitReconcile(p) ==
  /\ In(p, "rewrite") /\ tx.todo = {} /\ pc[p] = "reconcile"
  /\ db' = [tx.db EXCEPT !.markers =
              {m \in @ : m.provider \notin {n.provider : n \in seen[p].markers}} \cup Referenced(p)]
  /\ tx' = NoTx
  /\ Goto(p, "open")
  /\ seen' = [seen EXCEPT ![p] = Unread]
  /\ UNCHANGED << env, cached, history, bounds >>

-----------------------------------------------------------------------------
(* Open processes, the administrator and the clock                         *)

NewNr(rows) ==
  LET old == {r.nr : r \in rows \cup original.rows}
  IN CHOOSE nr \in 1 .. 1 + Cardinality(old) : nr \notin old

\* A request of an open process is logged under the fingerprint of its API key.
RecordUsage(p) ==
  /\ pc[p] = "open" /\ Idle /\ writes < MaxWrites
  /\ \E k \in configured :
       db' = [db EXCEPT !.rows = @ \cup
                {[nr |-> NewNr(@), table |-> "usage", provider |-> "codex", id |-> V1(k, cached[p]),
                  alias |-> FALSE, active |-> FALSE, at |-> now, reset |-> 0, released |-> 0]}]
  /\ writes' = writes + 1
  /\ UNCHANGED << env, procs, tx, history, incidents >>

Reserve(p) ==
  /\ pc[p] = "open" /\ Idle /\ writes < MaxWrites
  /\ db' = [db EXCEPT !.reservations = @ + 1]
  /\ writes' = writes + 1
  /\ UNCHANGED << env, procs, tx, history, incidents >>

\* An administrator releases a ban through an open process.
Release(p) ==
  /\ pc[p] = "open" /\ Idle /\ Incident
  /\ \E r \in {q \in db.rows : InForce(q) /\ q.table = "ban"} :
       /\ db' = [db EXCEPT !.rows = (@ \ {r}) \cup {[r EXCEPT !.active = FALSE, !.released = now]}]
       /\ lifted' = lifted \cup {<< r.table, r.id.key >>}
  /\ UNCHANGED << env, procs, tx, original >>

Close(p) ==
  /\ pc[p] = "open"
  /\ Goto(p, "closed")
  /\ UNCHANGED << db, env, cached, seen, tx, history, bounds >>

\* Keys are added to and removed from the configuration at any time.
Reconfigure ==
  /\ Incident
  /\ \E k \in Keys :
       configured' = IF k \in configured THEN configured \ {k} ELSE configured \cup {k}
  /\ UNCHANGED << db, secretFile, now, procs, tx, history >>

\* The secret file is removed, or replaced by another.
ReplaceSecret ==
  /\ Incident
  /\ secretFile' \in (Secrets \cup {None}) \ {secretFile}
  /\ UNCHANGED << db, configured, now, procs, tx, history >>

Tick ==
  /\ now < Horizon
  /\ now' = now + 1
  /\ UNCHANGED << db, secretFile, configured, procs, tx, history, bounds >>

Step(p) ==
  \/ ReadVersion(p) \/ Begin(p) \/ BindSecret(p) \/ CreateSecret(p) \/ WriteSecret(p)
  \/ NormalizeResets(p) \/ DiscardReservations(p) \/ MigrateProviderKeys(p)
  \/ BeginRewrite(p) \/ RewriteRow(p) \/ FinishRewrite(p) \/ CommitUpgrade(p)
  \/ VerifyBinding(p) \/ LoadMarkers(p) \/ BeginReconcile(p) \/ CommitReconcile(p)

Next ==
  \/ \E p \in Processes :
       Step(p) \/ Fail(p) \/ Crash(p) \/ RecordUsage(p) \/ Reserve(p) \/ Release(p) \/ Close(p)
  \/ Reconfigure \/ ReplaceSecret \/ Tick

Spec == Init /\ [][Next]_vars

-----------------------------------------------------------------------------
(* Properties                                                              *)

Upgraded == db.version = Current
Originals(table, k) ==
  {[r EXCEPT !.reset = IF original.version < 4 THEN Seconds(r) ELSE @] :
     r \in {q \in original.rows : /\ q.table = table /\ q.id.key = k
                                  /\ Canonical(q) = Own(table)
                                  /\ q.id.secret \in {None, db.bound}}}

\* An upgrade is all or nothing.  Until it commits, the file is what it was, also
\* after failures and crashes of several processes.  Afterwards the file is bound
\* to a secret, no row names an API key or its v0 fingerprint, no restriction is
\* stored twice, and providers and resets have one form.
UpgradeIsWhole ==
  IF ~Upgraded THEN db = original
  ELSE /\ db.bound # None
       /\ \A r \in db.rows : /\ r.id.form \in {"v1", "legacy"}
                             /\ r.provider = Canonical(r)
                             /\ r.reset <= Milliseconds
       /\ \A r, q \in db.rows : r.table # "usage" /\ SameKey(r, q) => r = q

\* A pick refuses the credential of API key k: a restriction in force names it,
\* or its provider is quarantined.
Refused(table, k) ==
  \/ \E r \in db.rows : /\ r.table = table /\ InForce(r)
                        /\ r.id = V1(k, db.bound) \/ (r.alias /\ r.id.key = k)
  \/ \E m \in db.markers : m.provider = Own(table)

\* No upgrade and no reconciliation loses a restriction: if the newest word of the
\* original file on a credential was a restriction that is still running and that no
\* administrator released, then the upgraded file still keeps picks from it, whether
\* or not its key was configured when the rows were rewritten.
RestrictionsSurvive ==
  Upgraded => \A table \in {"invalid", "ban", "xai"}, k \in Keys :
    (/\ Originals(table, k) # {} /\ << table, k >> \notin lifted
     /\ InForce(Best(Originals(table, k)))) => Refused(table, k)

Remaining(table, k) ==
  {r \in db.rows : /\ r.table = table /\ r.id.key = k /\ r.provider = Own(table)
                   /\ r.id.secret = db.bound}
BestOriginal(table, k) ==
  [Best(Originals(table, k)) EXCEPT !.id = V1(k, db.bound), !.provider = Own(table)]

\* However many rows named one credential, in whatever form, and in whatever order
\* they were rewritten and merged, by the upgrade and by later reconciliations: once
\* one row is left, it is the best of them, neither an older one nor a mixture.
MergeKeepsBest ==
  Upgraded => \A table \in {"invalid", "ban", "xai"}, k \in Keys :
    (/\ Cardinality(Remaining(table, k)) = 1
     /\ \A r \in Remaining(table, k) : r.id.form = "v1"
     /\ << table, k >> \notin lifted)
      => Remaining(table, k) = {BestOriginal(table, k)}

\* Whatever happens to the secret file and to a process's cached secret, every
\* fingerprint that is written belongs to the secret the file is bound to.
FingerprintsAreBound ==
  Upgraded => \A r \in db.rows \cup db.markers :
    r.id.secret = db.bound \/ \E q \in original.rows : q.id = r.id

\* Once the file is upgraded, no process that was waiting to upgrade it discards the
\* reservations that open processes have recorded since.
ReservationsAreKept == [][Upgraded => db'.reservations >= db.reservations]_db
=============================================================================
